---- MODULE Spec2Model ----
(***************************************************************************)
(* Item Editor add-on (Justash01/item-editor-mcbe): model of the item      *)
(* comparator, the item list of an entity target, the enchantment string   *)
(* parser, the numeral codec, the coordinate parser, the form field        *)
(* registry, the menu flow from the main menu through the item list, the   *)
(* details and the edit form to the error menu, and the sweep that keeps   *)
(* unbreakable items undamaged.                                            *)
(*                                                                         *)
(* Text is modelled as a sequence of one-character strings, so that        *)
(* split, trim, the entry pattern and the numeral codec work on            *)
(* characters as the code does.  A JavaScript number is a record that is   *)
(* either a finite value or NaN; an absent value is a marker record.       *)
(***************************************************************************)
EXTENDS Integers, Sequences, FiniteSets, TLC

VARIABLES
  \* isSameItem: the two items, the setter calls made, both results
  item1, item2, edits, cmpPc, res12, res21,
  \* listItems: the entity target and the buttons of its item list
  target, itemIndices, listPc,
  \* parseEnchantments: arguments, loop state and result
  enchItem, enchantmentsStr, enchantmentEntries, idx, enchantments,
  parseResult, parsePc,
  \* numeral codec: the number, its numeral, the numeral read back, written again
  codecNum, numeral, decoded, again, codecPc,
  \* parseCoords: the player, the input text and the result
  coordPlayer, coordInput, coordResult, coordPc,
  \* FormFieldManager: its fields, what addField returned, the last getValue call
  fields, added, got,
  \* menus: the form shown to each viewer, the callback last run, entities left
  \* with a temporary tag, the inventories of the world, the entity list each
  \* viewer's flow went through, and the edit forms each viewer submitted
  form, lastResponse, tagged, world, selectorShown, submits,
  \* host behaviour that the script cannot observe
  stackOrderMatters, incompatible, nanOutcome

vars ==
  <<item1, item2, edits, cmpPc, res12, res21,
    target, itemIndices, listPc,
    enchItem, enchantmentsStr, enchantmentEntries, idx, enchantments,
    parseResult, parsePc,
    codecNum, numeral, decoded, again, codecPc,
    coordPlayer, coordInput, coordResult, coordPc,
    fields, added, got,
    form, lastResponse, tagged, world, selectorShown, submits,
    stackOrderMatters, incompatible, nanOutcome>>

\* What the actions of one part of the model leave alone.
notSameVars ==
  <<target, itemIndices, listPc,
    enchItem, enchantmentsStr, enchantmentEntries, idx, enchantments,
    parseResult, parsePc,
    codecNum, numeral, decoded, again, codecPc,
    coordPlayer, coordInput, coordResult, coordPc,
    fields, added, got,
    form, lastResponse, tagged, world, selectorShown, submits,
    stackOrderMatters, incompatible, nanOutcome>>

notListVars ==
  <<item1, item2, edits, cmpPc, res12, res21,
    enchItem, enchantmentsStr, enchantmentEntries, idx, enchantments,
    parseResult, parsePc,
    codecNum, numeral, decoded, again, codecPc,
    coordPlayer, coordInput, coordResult, coordPc,
    fields, added, got,
    form, lastResponse, tagged, world, selectorShown, submits,
    stackOrderMatters, incompatible, nanOutcome>>

notEnchVars ==
  <<item1, item2, edits, cmpPc, res12, res21,
    target, itemIndices, listPc,
    codecNum, numeral, decoded, again, codecPc,
    coordPlayer, coordInput, coordResult, coordPc,
    fields, added, got,
    form, lastResponse, tagged, world, selectorShown, submits,
    stackOrderMatters, incompatible, nanOutcome>>

notCodecVars ==
  <<item1, item2, edits, cmpPc, res12, res21,
    target, itemIndices, listPc,
    enchItem, enchantmentsStr, enchantmentEntries, idx, enchantments,
    parseResult, parsePc,
    coordPlayer, coordInput, coordResult, coordPc,
    fields, added, got,
    form, lastResponse, tagged, world, selectorShown, submits,
    stackOrderMatters, incompatible, nanOutcome>>

notCoordVars ==
  <<item1, item2, edits, cmpPc, res12, res21,
    target, itemIndices, listPc,
    enchItem, enchantmentsStr, enchantmentEntries, idx, enchantments,
    parseResult, parsePc,
    codecNum, numeral, decoded, again, codecPc,
    fields, added, got,
    form, lastResponse, tagged, world, selectorShown, submits,
    stackOrderMatters, incompatible, nanOutcome>>

notFieldVars ==
  <<item1, item2, edits, cmpPc, res12, res21,
    target, itemIndices, listPc,
    enchItem, enchantmentsStr, enchantmentEntries, idx, enchantments,
    parseResult, parsePc,
    codecNum, numeral, decoded, again, codecPc,
    coordPlayer, coordInput, coordResult, coordPc,
    form, lastResponse, tagged, world, selectorShown, submits,
    stackOrderMatters, incompatible, nanOutcome>>

notMenuVars ==
  <<item1, item2, edits, cmpPc, res12, res21,
    target, itemIndices, listPc,
    enchItem, enchantmentsStr, enchantmentEntries, idx, enchantments,
    parseResult, parsePc,
    codecNum, numeral, decoded, again, codecPc,
    coordPlayer, coordInput, coordResult, coordPc,
    fields, added, got,
    stackOrderMatters, incompatible, nanOutcome>>

\* The parts of the model that a specification does not exercise stay idle:
\* every part but the active ones has the values it has before its first call.
Idle(active) ==
  /\ IF "same" \in active THEN TRUE
     ELSE /\ item1 = "none" /\ item2 = "none" /\ edits = 0
          /\ cmpPc = "idle" /\ res12 = "none" /\ res21 = "none"
  /\ IF "list" \in active THEN TRUE
     ELSE target = "none" /\ itemIndices = <<>> /\ listPc = "idle"
  /\ IF "ench" \in active THEN TRUE
     ELSE /\ enchItem = "none" /\ enchantmentsStr = <<>> /\ enchantmentEntries = <<>>
          /\ idx = 0 /\ enchantments = <<>> /\ parseResult = "none" /\ parsePc = "idle"
          /\ incompatible = <<>> /\ nanOutcome = "throw"
  /\ IF "codec" \in active THEN TRUE
     ELSE /\ codecNum = 0 /\ numeral = <<>> /\ decoded = "none" /\ again = <<>>
          /\ codecPc = "idle"
  /\ IF "coord" \in active THEN TRUE
     ELSE /\ coordPlayer = "none" /\ coordInput = <<>> /\ coordResult = "none"
          /\ coordPc = "idle"
  /\ IF "field" \in active THEN TRUE
     ELSE fields = <<>> /\ added = <<>> /\ got = "none"
  /\ IF "menu" \in active THEN TRUE
     ELSE /\ form = "none" /\ lastResponse = "none" /\ tagged = {}
          /\ world = "none" /\ selectorShown = "none" /\ submits = 0

(***************************************************************************)
(* Bounds of the model.                                                    *)
(***************************************************************************)
\* Host setter calls applied to the two items before they are compared.
MaxEdits == 2

\* Lore lines / block ids held by one list.
MaxList == 2

\* Slots of the target entity's inventory container.
ContainerSize == 2

\* Comma-separated entries of one enchantments string.
MaxEntries == 2

\* Largest number given to the numeral codec.
MaxNumber == 30

\* addField calls made on one FormFieldManager.
MaxFields == 3

\* Values carried by one form response.
MaxValues == 2

\* Edit forms submitted by one viewer.
MaxSubmits == 1

(***************************************************************************)
(* Generic sequence helpers.                                               *)
(***************************************************************************)
\* Array.prototype.includes
Includes(arr, x) == \E i \in 1..Len(arr) : arr[i] = x

\* Array.prototype.every(e => other.includes(e))
EveryIncluded(arr, other) == \A i \in 1..Len(arr) : Includes(other, arr[i])

Range(arr) == {arr[i] : i \in 1..Len(arr)}

\* All sequences over S of length at most n.
SeqsUpTo(S, n) == UNION {[1..k -> S] : k \in 0..n}

\* Sequences without repeated entries.
NoRepeat(arr) == \A i, j \in 1..Len(arr) : arr[i] = arr[j] => i = j

(***************************************************************************)
(* Host item model (@minecraft/server ItemStack).                          *)
(***************************************************************************)
\* Per-type data the host derives from typeId: stackability, components, tags.
ItemTypeInfo ==
  [ sword |-> [isStackable |-> FALSE, maxAmount |-> 1, hasDurability |-> TRUE,
               maxDurability |-> 30, hasFood |-> FALSE, hasEnchantable |-> TRUE,
               hasCooldown |-> FALSE, tags |-> <<"is_sword", "is_tool">>],
    helmet |-> [isStackable |-> FALSE, maxAmount |-> 1, hasDurability |-> TRUE,
                maxDurability |-> 20, hasFood |-> FALSE, hasEnchantable |-> TRUE,
                hasCooldown |-> FALSE, tags |-> <<"is_armor">>],
    apple |-> [isStackable |-> TRUE, maxAmount |-> 2, hasDurability |-> FALSE,
               maxDurability |-> 0, hasFood |-> TRUE, hasEnchantable |-> FALSE,
               hasCooldown |-> FALSE, tags |-> <<"is_food">>],
    totem |-> [isStackable |-> FALSE, maxAmount |-> 1, hasDurability |-> FALSE,
               maxDurability |-> 0, hasFood |-> FALSE, hasEnchantable |-> FALSE,
               hasCooldown |-> FALSE, tags |-> <<>>],
    book |-> [isStackable |-> TRUE, maxAmount |-> 2, hasDurability |-> FALSE,
              maxDurability |-> 0, hasFood |-> FALSE, hasEnchantable |-> TRUE,
              hasCooldown |-> FALSE, tags |-> <<>>],
    \* item types of other add-ons: the remaining combinations of components
    wand |-> [isStackable |-> FALSE, maxAmount |-> 1, hasDurability |-> FALSE,
              maxDurability |-> 0, hasFood |-> FALSE, hasEnchantable |-> TRUE,
              hasCooldown |-> FALSE, tags |-> <<>>],
    gauge |-> [isStackable |-> FALSE, maxAmount |-> 1, hasDurability |-> TRUE,
               maxDurability |-> 30, hasFood |-> FALSE, hasEnchantable |-> FALSE,
               hasCooldown |-> FALSE, tags |-> <<>>],
    charm |-> [isStackable |-> TRUE, maxAmount |-> 2, hasDurability |-> TRUE,
               maxDurability |-> 30, hasFood |-> FALSE, hasEnchantable |-> TRUE,
               hasCooldown |-> FALSE, tags |-> <<>>],
    token |-> [isStackable |-> TRUE, maxAmount |-> 2, hasDurability |-> TRUE,
               maxDurability |-> 30, hasFood |-> FALSE, hasEnchantable |-> FALSE,
               hasCooldown |-> FALSE, tags |-> <<>>] ]

ItemTypeIds == {"sword", "helmet", "apple"}

LoreLines == {"la", "lb"}

BlockIds == {"stone", "dirt"}

LockModes == {"none", "slot", "inventory"}

UnbreakableId == "item_editor:unbreakable"

\* new ItemStack(typeId): the host's defaults.
NewItem(typeId) ==
  [ typeId |-> typeId, nameTag |-> "undefined", amount |-> 1, lore |-> <<>>,
    canDestroy |-> <<>>, canPlaceOn |-> <<>>, keepOnDeath |-> FALSE,
    lockMode |-> "none", damage |-> 0, enchantments |-> <<>>,
    dynamicProperties |-> <<>> ]

\* An empty slot: getItem and getEquipment return undefined.
NoItem == [typeId |-> "undefined"]

isStackable(item) == ItemTypeInfo[item.typeId].isStackable

getTags(item) == ItemTypeInfo[item.typeId].tags

hasComponent(item, componentType) ==
  CASE componentType = "cooldown" -> ItemTypeInfo[item.typeId].hasCooldown
    [] componentType = "durability" -> ItemTypeInfo[item.typeId].hasDurability
    [] componentType = "food" -> ItemTypeInfo[item.typeId].hasFood
    [] componentType = "enchantable" -> ItemTypeInfo[item.typeId].hasEnchantable

getDynamicPropertyIds(item) ==
  [i \in 1..Len(item.dynamicProperties) |-> item.dynamicProperties[i].id]

getDynamicProperty(item, id) ==
  IF \E i \in 1..Len(item.dynamicProperties) : item.dynamicProperties[i].id = id
    THEN LET i == CHOOSE j \in 1..Len(item.dynamicProperties) :
                    item.dynamicProperties[j].id = id
         IN item.dynamicProperties[i].value
    ELSE "undefined"

\* ItemStack.isStackableWith: the host compares type and all data, the amount
\* left aside.  Whether the host's comparison of the two block lists depends
\* on their order is not visible to the script: stackOrderMatters is that
\* host behaviour.
isStackableWith(a, b) ==
  /\ a.typeId = b.typeId
  /\ a.nameTag = b.nameTag
  /\ a.lore = b.lore
  /\ IF stackOrderMatters
       THEN a.canDestroy = b.canDestroy /\ a.canPlaceOn = b.canPlaceOn
       ELSE /\ Range(a.canDestroy) = Range(b.canDestroy)
            /\ Range(a.canPlaceOn) = Range(b.canPlaceOn)
  /\ a.keepOnDeath = b.keepOnDeath
  /\ a.lockMode = b.lockMode
  /\ a.damage = b.damage
  /\ a.enchantments = b.enchantments
  /\ a.dynamicProperties = b.dynamicProperties

(***************************************************************************)
(* utils: isSameItem and its helpers.                                      *)
(***************************************************************************)
arraysEqual(arr1, arr2) ==
  IF Len(arr1) # Len(arr2) THEN FALSE
  ELSE \A index \in 1..Len(arr1) : arr1[index] = arr2[index]

\* Cooldown and food values are fixed by the item type.
compareCooldownComponents(a, b) == a.typeId = b.typeId

compareDurabilityComponents(a, b) ==
  /\ ItemTypeInfo[a.typeId].maxDurability = ItemTypeInfo[b.typeId].maxDurability
  /\ a.damage = b.damage

compareFoodComponents(a, b) == a.typeId = b.typeId

compareEnchantableComponents(a, b) ==
  LET enchantments1 == a.enchantments
      enchantments2 == b.enchantments
  IN IF Len(enchantments1) # Len(enchantments2) THEN FALSE
     ELSE \A i \in 1..Len(enchantments1) :
            ~ (enchantments1[i].type # enchantments2[i].type
               \/ enchantments1[i].level # enchantments2[i].level)

compareComponent(a, b, componentType) ==
  LET hasComponent1 == hasComponent(a, componentType)
      hasComponent2 == hasComponent(b, componentType)
  IN IF hasComponent1 # hasComponent2 THEN FALSE
     ELSE IF hasComponent1 /\ hasComponent2
       THEN CASE componentType = "cooldown" -> compareCooldownComponents(a, b)
              [] componentType = "durability" -> compareDurabilityComponents(a, b)
              [] componentType = "food" -> compareFoodComponents(a, b)
              [] componentType = "enchantable" -> compareEnchantableComponents(a, b)
       ELSE TRUE

compareComponents(a, b) ==
  /\ compareComponent(a, b, "cooldown")
  /\ compareComponent(a, b, "durability")
  /\ compareComponent(a, b, "food")
  /\ compareComponent(a, b, "enchantable")

\* The properties carried by the modelled items hold booleans (the add-on's
\* own marker), compared with !==.
compareDynamicProperties(a, b) ==
  IF ~ arraysEqual(getDynamicPropertyIds(a), getDynamicPropertyIds(b)) THEN FALSE
  ELSE \A i \in 1..Len(a.dynamicProperties) :
         getDynamicProperty(a, a.dynamicProperties[i].id)
           = getDynamicProperty(b, a.dynamicProperties[i].id)

isSameItem(a, b) ==
  IF a.typeId # b.typeId THEN FALSE
  ELSE IF a.nameTag # b.nameTag THEN FALSE
  ELSE IF a.amount # b.amount THEN FALSE
  ELSE IF isStackable(a) /\ isStackableWith(a, b) THEN FALSE
  ELSE IF Len(getTags(a)) # Len(getTags(b)) \/ ~ EveryIncluded(getTags(a), getTags(b))
    THEN FALSE
  ELSE IF Len(a.lore) # Len(b.lore) \/ ~ EveryIncluded(a.lore, b.lore) THEN FALSE
  ELSE IF Len(a.canDestroy) # Len(b.canDestroy)
          \/ ~ EveryIncluded(a.canDestroy, b.canDestroy) THEN FALSE
  ELSE IF Len(a.canPlaceOn) # Len(b.canPlaceOn)
          \/ ~ EveryIncluded(a.canPlaceOn, b.canPlaceOn) THEN FALSE
  ELSE IF a.keepOnDeath # b.keepOnDeath THEN FALSE
  ELSE IF a.lockMode # b.lockMode THEN FALSE
  ELSE IF ~ compareComponents(a, b) THEN FALSE
  ELSE IF ~ compareDynamicProperties(a, b) THEN FALSE
  ELSE TRUE

(***************************************************************************)
(* Specification SpecSameItem: two item stacks are built with the host     *)
(* setters the editor uses, then compared in both directions.              *)
(***************************************************************************)
ItemOf(k) == IF k = 1 THEN item1 ELSE item2

\* The k-th item becomes `new`; one more setter call has been made.
Edit(k, new) ==
  /\ cmpPc = "build"
  /\ edits < MaxEdits
  /\ new # ItemOf(k)
  /\ item1' = IF k = 1 THEN new ELSE item1
  /\ item2' = IF k = 2 THEN new ELSE item2
  /\ edits' = edits + 1
  /\ UNCHANGED <<cmpPc, res12, res21, notSameVars>>

SetNameTag(k) ==
  \E nameTag \in {"undefined", "Named"} :
    Edit(k, [ItemOf(k) EXCEPT !.nameTag = nameTag])

SetAmount(k) ==
  /\ isStackable(ItemOf(k))
  /\ \E amount \in 1..ItemTypeInfo[ItemOf(k).typeId].maxAmount :
       Edit(k, [ItemOf(k) EXCEPT !.amount = amount])

SetDamage(k) ==
  /\ hasComponent(ItemOf(k), "durability")
  /\ \E damage \in {0, ItemTypeInfo[ItemOf(k).typeId].maxDurability} :
       Edit(k, [ItemOf(k) EXCEPT !.damage = damage])

SetKeepOnDeath(k) ==
  \E keepOnDeath \in BOOLEAN :
    Edit(k, [ItemOf(k) EXCEPT !.keepOnDeath = keepOnDeath])

SetLockMode(k) ==
  \E lockMode \in LockModes :
    Edit(k, [ItemOf(k) EXCEPT !.lockMode = lockMode])

SetUnbreakable(k) ==
  \E isUnbreakable \in BOOLEAN :
    Edit(k, [ItemOf(k) EXCEPT !.dynamicProperties =
               IF isUnbreakable THEN <<[id |-> UnbreakableId, value |-> TRUE]>>
               ELSE <<>>])

SetLore(k) ==
  \E loreLines \in SeqsUpTo(LoreLines, MaxList) :
    Edit(k, [ItemOf(k) EXCEPT !.lore = loreLines])

AddEnchantments(k) ==
  /\ hasComponent(ItemOf(k), "enchantable")
  /\ \E newEnchantments \in
          { <<>>, <<[type |-> "sharpness", level |-> 1]>>,
            <<[type |-> "sharpness", level |-> 2]>>,
            <<[type |-> "sharpness", level |-> 1], [type |-> "mending", level |-> 1]>>,
            <<[type |-> "mending", level |-> 1], [type |-> "sharpness", level |-> 1]>> } :
       Edit(k, [ItemOf(k) EXCEPT !.enchantments = newEnchantments])

SetCanDestroy(k) ==
  \E validCanDestroyBlocks \in {b \in SeqsUpTo(BlockIds, MaxList) : NoRepeat(b)} :
    Edit(k, [ItemOf(k) EXCEPT !.canDestroy = validCanDestroyBlocks])

SetCanPlaceOn(k) ==
  \E validCanPlaceOnBlocks \in {b \in SeqsUpTo(BlockIds, MaxList) : NoRepeat(b)} :
    Edit(k, [ItemOf(k) EXCEPT !.canPlaceOn = validCanPlaceOnBlocks])

\* isSameItem(item1, item2) and isSameItem(item2, item1) are evaluated.
Compare ==
  /\ cmpPc = "build"
  /\ cmpPc' = "compared"
  /\ res12' = isSameItem(item1, item2)
  /\ res21' = isSameItem(item2, item1)
  /\ UNCHANGED <<item1, item2, edits, notSameVars>>

SameInit ==
  /\ \E t1, t2 \in ItemTypeIds : item1 = NewItem(t1) /\ item2 = NewItem(t2)
  /\ edits = 0
  /\ cmpPc = "build"
  /\ res12 = "none"
  /\ res21 = "none"
  /\ stackOrderMatters \in BOOLEAN
  /\ Idle({"same"})

SameNext ==
  \/ \E k \in {1, 2} : SetNameTag(k)
  \/ \E k \in {1, 2} : SetAmount(k)
  \/ \E k \in {1, 2} : SetDamage(k)
  \/ \E k \in {1, 2} : SetKeepOnDeath(k)
  \/ \E k \in {1, 2} : SetLockMode(k)
  \/ \E k \in {1, 2} : SetUnbreakable(k)
  \/ \E k \in {1, 2} : SetLore(k)
  \/ \E k \in {1, 2} : AddEnchantments(k)
  \/ \E k \in {1, 2} : SetCanDestroy(k)
  \/ \E k \in {1, 2} : SetCanPlaceOn(k)
  \/ Compare

SpecSameItem == SameInit /\ [][SameNext]_vars

(***************************************************************************)
(* Claims about isSameItem.                                                *)
(***************************************************************************)
\* Every compared field of the two items matches exactly.
AllFieldsMatch(a, b) ==
  /\ a.typeId = b.typeId
  /\ a.nameTag = b.nameTag
  /\ a.amount = b.amount
  /\ a.lore = b.lore
  /\ a.canDestroy = b.canDestroy
  /\ a.canPlaceOn = b.canPlaceOn
  /\ a.keepOnDeath = b.keepOnDeath
  /\ a.lockMode = b.lockMode
  /\ a.damage = b.damage
  /\ a.enchantments = b.enchantments
  /\ a.dynamicProperties = b.dynamicProperties

\* C1: isSameItem(a, b) is true whenever every compared field of a and b
\* matches exactly; in particular isSameItem(a, a) is true for stackable and
\* non-stackable items.
C1_SameWhenAllFieldsMatch ==
  (cmpPc = "compared" /\ AllFieldsMatch(item1, item2)) => res12 = TRUE

\* C2: isSameItem is symmetric, also for lists with repeated entries.
C2_Symmetric ==
  cmpPc = "compared" => res12 = res21

\* The two sequences differ, and only in the order of their entries.
Reordered(s, t) ==
  /\ s # t
  /\ Len(s) = Len(t)
  /\ \A x \in Range(s) \cup Range(t) :
       Cardinality({i \in 1..Len(s) : s[i] = x})
         = Cardinality({i \in 1..Len(t) : t[i] = x})

\* C3: two items that differ only in the order of their lore lines are not
\* equal.
C3_LoreOrderMatters ==
  (/\ cmpPc = "compared"
   /\ Reordered(item1.lore, item2.lore)
   /\ AllFieldsMatch([item1 EXCEPT !.lore = <<>>], [item2 EXCEPT !.lore = <<>>]))
    => res12 = FALSE

\* C4: two items that are identical except that their can-destroy lists hold
\* the same set of block ids in a different order are equal, stackable or not.
C4_CanDestroyOrderIgnored ==
  (/\ cmpPc = "compared"
   /\ Reordered(item1.canDestroy, item2.canDestroy)
   /\ AllFieldsMatch([item1 EXCEPT !.canDestroy = <<>>],
                     [item2 EXCEPT !.canDestroy = <<>>]))
    => res12 = TRUE

(***************************************************************************)
(* Specification SpecListItems: the item list of an entity target.         *)
(***************************************************************************)
\* Object.values(EquipmentSlot)
EquipmentSlots == <<"Chest", "Feet", "Head", "Legs", "Mainhand", "Offhand">>

ArmorSlots == {"Chest", "Feet", "Head", "Legs"}

\* Items the target may hold in its container and hands.
HeldItems ==
  { NewItem("sword"), [NewItem("sword") EXCEPT !.lore = <<"la">>],
    NewItem("apple") }

\* EntityEquippableComponent.getEquipment: a player's main hand is the
\* selected slot of its container.
getEquipment(entity, slot) ==
  IF slot = "Mainhand" /\ entity.isPlayer
    THEN entity.container[entity.selectedSlotIndex + 1]
    ELSE entity.equipment[slot]

\* Container.getItem (slot indices start at 0)
getItem(entity, i) == entity.container[i + 1]

\* The entities a selector can resolve to: players, mobs with equipment and
\* mobs without an equippable component.
Targets ==
  { e \in [ isPlayer : BOOLEAN,
            hasEquippable : BOOLEAN,
            selectedSlotIndex : 0..(ContainerSize - 1),
            container : [1..ContainerSize -> HeldItems \cup {NoItem}],
            equipment : [Range(EquipmentSlots) -> HeldItems \cup {NewItem("helmet"), NoItem}] ] :
      /\ e.isPlayer => e.hasEquippable
      /\ ~ e.isPlayer => e.selectedSlotIndex = 0
      /\ \A slot \in ArmorSlots : e.equipment[slot] \in {NewItem("helmet"), NoItem}
      /\ e.equipment["Offhand"] \in {NewItem("apple"), NoItem}
      /\ e.equipment["Mainhand"] # NewItem("helmet")
      /\ e.isPlayer => e.equipment["Mainhand"] = NoItem
      /\ ~ e.hasEquippable => \A slot \in Range(EquipmentSlots) : e.equipment[slot] = NoItem }

\* The container part of listItems: the loop over the container's slots.
ContainerButtons(entity) ==
  LET mainhandItem == IF entity.hasEquippable THEN getEquipment(entity, "Mainhand")
                      ELSE NoItem
      Listed(i) ==
        LET item == getItem(entity, i)
        IN /\ item # NoItem
           /\ ~ (mainhandItem # NoItem /\ isSameItem(item, mainhandItem))
      indices == [i \in 1..ContainerSize |-> i - 1]
      kept == SelectSeq(indices, Listed)
  IN [n \in 1..Len(kept) |-> [type |-> "container", index |-> kept[n]]]

\* The equipment part of listItems: one button per occupied equipment slot.
EquippedButtons(entity) ==
  LET Occupied(slot) == getEquipment(entity, slot) # NoItem
      kept == IF entity.hasEquippable THEN SelectSeq(EquipmentSlots, Occupied) ELSE <<>>
  IN [n \in 1..Len(kept) |-> [type |-> "equippable", index |-> kept[n]]]

\* listItems(viewer, container, target): the buttons after "Go back".
listItems ==
  /\ listPc = "selected"
  /\ itemIndices' = EquippedButtons(target) \o ContainerButtons(target)
  /\ listPc' = "shown"
  /\ UNCHANGED <<target, notListVars>>

ListInit ==
  /\ target \in Targets
  /\ itemIndices = <<>>
  /\ listPc = "selected"
  /\ stackOrderMatters \in BOOLEAN
  /\ Idle({"list"})

ListNext == listItems

SpecListItems == ListInit /\ [][ListNext]_vars

\* Number of buttons of the list that stand for the given slot.
ButtonCount(type, index) ==
  Cardinality({n \in 1..Len(itemIndices) :
                 itemIndices[n].type = type /\ itemIndices[n].index = index})

\* The container slot that holds the entity's main-hand item.
HoldsMainhand(entity, i) ==
  entity.isPlayer /\ i = entity.selectedSlotIndex

\* C5: every item the entity holds is offered exactly once: one "(Equipped)"
\* button per occupied equipment slot, no second button for the container
\* slot that holds the main-hand item, and one button for every other
\* non-empty container slot.
C5_EachItemListedOnce ==
  listPc = "shown" =>
    /\ \A slot \in Range(EquipmentSlots) :
         ButtonCount("equippable", slot)
           = IF target.hasEquippable /\ getEquipment(target, slot) # NoItem
               THEN 1 ELSE 0
    /\ \A i \in 0..(ContainerSize - 1) :
         ButtonCount("container", i)
           = IF getItem(target, i) # NoItem /\ ~ HoldsMainhand(target, i)
               THEN 1 ELSE 0

(***************************************************************************)
(* Text: characters, String.prototype.split / trim / toLowerCase / replace *)
(***************************************************************************)
UpperLetters ==
  << "A", "B", "C", "D", "E", "F", "G", "H", "I", "J", "K", "L", "M",
     "N", "O", "P", "Q", "R", "S", "T", "U", "V", "W", "X", "Y", "Z" >>

LowerLetters ==
  << "a", "b", "c", "d", "e", "f", "g", "h", "i", "j", "k", "l", "m",
     "n", "o", "p", "q", "r", "s", "t", "u", "v", "w", "x", "y", "z" >>

DigitChars == << "0", "1", "2", "3", "4", "5", "6", "7", "8", "9" >>

\* The regular-expression classes \w and \s.
WordChars == Range(UpperLetters) \cup Range(LowerLetters) \cup Range(DigitChars) \cup {"_"}

SpaceChars == {" "}

toLowerCase(str) ==
  [i \in 1..Len(str) |->
     IF str[i] \in Range(UpperLetters)
       THEN LowerLetters[CHOOSE k \in 1..Len(UpperLetters) : UpperLetters[k] = str[i]]
       ELSE str[i]]

\* str.replace(/ /g, '_')
replaceSpaces(str) == [i \in 1..Len(str) |-> IF str[i] = " " THEN "_" ELSE str[i]]

trim(str) ==
  LET inner == {i \in 1..Len(str) : str[i] \notin SpaceChars}
  IN IF inner = {} THEN <<>>
     ELSE SubSeq(str, CHOOSE i \in inner : \A j \in inner : i <= j,
                      CHOOSE i \in inner : \A j \in inner : i >= j)

RECURSIVE split(_, _)
\* str.split(sep) for a one-character separator
split(str, sep) ==
  LET at == {i \in 1..Len(str) : str[i] = sep}
  IN IF at = {} THEN <<str>>
     ELSE LET first == CHOOSE i \in at : \A j \in at : i <= j
          IN <<SubSeq(str, 1, first - 1)>> \o split(SubSeq(str, first + 1, Len(str)), sep)

RECURSIVE join(_, _)
\* parts.join(sep)
join(parts, sep) ==
  IF Len(parts) = 0 THEN <<>>
  ELSE IF Len(parts) = 1 THEN parts[1]
  ELSE parts[1] \o sep \o join(Tail(parts), sep)

(***************************************************************************)
(* JavaScript numbers: a finite value, or NaN.  undefined behaves as NaN   *)
(* in the arithmetic and the comparisons of the code.                      *)
(***************************************************************************)
Num(v) == [nan |-> FALSE, val |-> v]

NaN == [nan |-> TRUE, val |-> 0]

\* a < b, a > b: false when either side is NaN or undefined
LessThan(a, b) == ~ a.nan /\ ~ b.nan /\ a.val < b.val

GreaterThan(a, b) == ~ a.nan /\ ~ b.nan /\ a.val > b.val

Plus(a, b) == IF a.nan \/ b.nan THEN NaN ELSE Num(a.val + b.val)

Minus(a, b) == IF a.nan \/ b.nan THEN NaN ELSE Num(a.val - b.val)

(***************************************************************************)
(* utils: Roman numeral codec.                                             *)
(***************************************************************************)
RECURSIVE toDecimalString(_)
\* Number.prototype.toString for a non-negative integer
toDecimalString(n) ==
  IF n < 10 THEN <<DigitChars[n + 1]>>
  ELSE toDecimalString(n \div 10) \o <<DigitChars[(n % 10) + 1]>>

\* The table of romanToNumber; a character outside it reads undefined.
romanValue(ch) ==
  CASE ch = "I" -> Num(1) [] ch = "V" -> Num(5) [] ch = "X" -> Num(10)
    [] ch = "L" -> Num(50) [] ch = "C" -> Num(100) [] ch = "D" -> Num(500)
    [] ch = "M" -> Num(1000) [] OTHER -> NaN

RECURSIVE romanLoopAddsOnly(_, _, _, _)
\* A loop of romanToNumber that adds every symbol's value.
romanLoopAddsOnly(roman, i, num, prevValue) ==
  IF i < 1 THEN num
  ELSE romanLoopAddsOnly(roman, i - 1, Plus(num, romanValue(roman[i])), prevValue)

RECURSIVE romanLoop(_, _, _, _)
\* The loop of romanToNumber, from index i down to the first character.
romanLoop(roman, i, num, prevValue) ==
  IF i < 1 THEN num
  ELSE LET value == romanValue(roman[i])
       IN IF LessThan(value, prevValue)
            THEN romanLoop(roman, i - 1, Minus(num, value), value)
            ELSE romanLoop(roman, i - 1, Plus(num, value), value)

romanToNumber(roman) == romanLoop(roman, Len(roman), Num(0), Num(0))

\* The table of convertToRomanNumerals, keys sorted largest first.
romanKeys == << 10, 9, 5, 4, 1 >>

romanNumeralOf(key) ==
  CASE key = 10 -> <<"X">> [] key = 9 -> <<"I", "X">> [] key = 5 -> <<"V">>
    [] key = 4 -> <<"I", "V">> [] key = 1 -> <<"I">>

RECURSIVE romanGreedy(_, _, _)
\* The for/while loops of convertToRomanNumerals from key number k on.
romanGreedy(k, remaining, result) ==
  IF k > Len(romanKeys) THEN result
  ELSE IF remaining >= romanKeys[k]
    THEN romanGreedy(k, remaining - romanKeys[k], result \o romanNumeralOf(romanKeys[k]))
    ELSE romanGreedy(k + 1, remaining, result)

convertToRomanNumerals(num) ==
  IF num > 10 THEN toDecimalString(num)
  ELSE romanGreedy(1, num, <<>>)

(***************************************************************************)
(* Host enchantment registry (EnchantmentTypes) and compatibility.         *)
(***************************************************************************)
\* The identifiers; potency stands for a registered type whose maximum
\* level exceeds 10.
typeIds ==
  [ sharpness |-> <<"s", "h", "a", "r", "p", "n", "e", "s", "s">>,
    fireAspect |-> <<"f", "i", "r", "e", "_", "a", "s", "p", "e", "c", "t">>,
    mending |-> <<"m", "e", "n", "d", "i", "n", "g">>,
    potency |-> <<"p", "o", "t", "e", "n", "c", "y">> ]

Registry ==
  { [id |-> typeIds.sharpness, maxLevel |-> 5], [id |-> typeIds.fireAspect, maxLevel |-> 2],
    [id |-> typeIds.mending, maxLevel |-> 1], [id |-> typeIds.potency, maxLevel |-> 11] }

\* EnchantmentTypes.get returns undefined for an unknown identifier.
NoType == [id |-> <<>>, maxLevel |-> 0]

EnchantmentTypesGet(formattedName) ==
  IF \E t \in Registry : t.id = formattedName
    THEN CHOOSE t \in Registry : t.id = formattedName
    ELSE NoType

\* ItemEnchantableComponent.canAddEnchantment({type, level}): "true", "false"
\* or "throw".  The level reaches the host either within 1..maxLevel or as
\* NaN; what the host does with NaN is host behaviour (nanOutcome).
canAddEnchantment(type, level) ==
  IF level.nan THEN nanOutcome
  ELSE IF type.id = incompatible THEN "false"
  ELSE "true"

(***************************************************************************)
(* utils: parseEnchantments.                                               *)
(***************************************************************************)
\* /^([\w\s]+?)(?:\s+(\w+))?$/ : the lazy name takes the shortest prefix
\* after which the rest is empty or is white space followed by one word.
enchantmentPattern(entry) ==
  LET n == Len(entry)
      NameOk(k) == \A i \in 1..k : entry[i] \in WordChars \cup SpaceChars
      \* rest of the entry is \s+\w+ with the word starting at position w
      LevelAt(k, w) ==
        /\ w >= k + 2 /\ w <= n
        /\ \A i \in (k + 1)..(w - 1) : entry[i] \in SpaceChars
        /\ \A i \in w..n : entry[i] \in WordChars
      TailOk(k) == k = n \/ \E w \in 1..n : LevelAt(k, w)
      ks == {k \in 1..n : NameOk(k) /\ TailOk(k)}
  IN IF ks = {} THEN [matched |-> FALSE, name |-> <<>>, hasLevel |-> FALSE, levelStr |-> <<>>]
     ELSE LET k == CHOOSE c \in ks : \A d \in ks : c <= d
          IN IF \E w \in 1..n : LevelAt(k, w)
               THEN LET w == CHOOSE v \in 1..n : LevelAt(k, v)
                    IN [matched |-> TRUE, name |-> SubSeq(entry, 1, k),
                        hasLevel |-> TRUE, levelStr |-> SubSeq(entry, w, n)]
               ELSE [matched |-> TRUE, name |-> SubSeq(entry, 1, k),
                     hasLevel |-> FALSE, levelStr |-> <<>>]

NoError == [kind |-> "none", text |-> <<>>, cited |-> <<>>, typeId |-> "none"]

\* level > type.maxLevel
levelTooHighOffByOne(level, maxLevel) == ~ level.nan /\ level.val >= maxLevel

levelTooHigh(level, maxLevel) == GreaterThan(level, Num(maxLevel))

\* One iteration of the loop of parseEnchantments: the entry's error, its
\* descriptor, or the exception of the host's compatibility check.
checkEntry(item, entry) ==
  LET match == enchantmentPattern(entry)
      name == match.name
      level == IF match.hasLevel THEN romanToNumber(match.levelStr) ELSE Num(1)
      formattedName == replaceSpaces(toLowerCase(trim(name)))
      type == EnchantmentTypesGet(formattedName)
      enchantment == [type |-> type.id, level |-> level]
      Fail(kind, text, cited) ==
        [kind |-> "error", enchantment |-> enchantment,
         error |-> [kind |-> kind, text |-> text, cited |-> cited, typeId |-> item.typeId]]
  IN IF ~ match.matched THEN Fail("invalidFormat", entry, <<>>)
     ELSE IF type = NoType THEN Fail("invalidIdentifier", name, <<>>)
     ELSE IF levelTooHigh(level, type.maxLevel)
       THEN Fail("levelTooHigh", name, convertToRomanNumerals(type.maxLevel))
     ELSE IF canAddEnchantment(type, level) = "throw"
       THEN [kind |-> "throw", enchantment |-> enchantment, error |-> NoError]
     ELSE IF canAddEnchantment(type, level) = "false"
       THEN Fail("incompatible", name, <<>>)
     ELSE [kind |-> "ok", enchantment |-> enchantment, error |-> NoError]

\* enchantmentsStr.split(',').map(entry => entry.trim())
splitEntries(str) ==
  LET parts == split(str, ",")
  IN [i \in 1..Len(parts) |-> trim(parts[i])]

\* enchantments.unshift(enchantment)
unshift(arr, x) == <<x>> \o arr

\* enchantments.push(enchantment)
push(arr, x) == Append(arr, x)

\* parseEnchantments has not returned.
NoResult ==
  [hasError |-> FALSE, error |-> NoError, hasEnchantments |-> FALSE, enchantments |-> <<>>]

ErrorResult(error) ==
  [hasError |-> TRUE, error |-> error, hasEnchantments |-> FALSE, enchantments |-> <<>>]

ListResult(list) ==
  [hasError |-> FALSE, error |-> NoError, hasEnchantments |-> TRUE, enchantments |-> list]

\* An entry of parseEnchantments without the test of the enchantable component.
parseStartUnchecked ==
  /\ parsePc = "call"
  /\ enchantmentEntries' = splitEntries(enchantmentsStr)
  /\ parsePc' = "loop"
  /\ UNCHANGED <<parseResult, enchItem, enchantmentsStr, idx, enchantments, notEnchVars>>

\* Entry of parseEnchantments: the enchantable component is looked up and
\* the string is split.
parseStart ==
  /\ parsePc = "call"
  /\ IF ~ hasComponent(enchItem, "enchantable")
       THEN /\ parseResult' = ErrorResult([kind |-> "notEnchantable", text |-> <<>>,
                                           cited |-> <<>>, typeId |-> enchItem.typeId])
            /\ parsePc' = "returned"
            /\ UNCHANGED enchantmentEntries
       ELSE /\ enchantmentEntries' = splitEntries(enchantmentsStr)
            /\ parsePc' = "loop"
            /\ UNCHANGED parseResult
  /\ UNCHANGED <<enchItem, enchantmentsStr, idx, enchantments, notEnchVars>>

\* A loop body that records the entry's error but goes on with the next entry.
parseEntryKeepsGoing ==
  /\ parsePc = "loop"
  /\ idx < Len(enchantmentEntries)
  /\ LET outcome == checkEntry(enchItem, enchantmentEntries[idx + 1])
     IN /\ idx' = idx + 1
        /\ enchantments' = IF outcome.kind = "ok"
                             THEN push(enchantments, outcome.enchantment)
                             ELSE enchantments
        /\ parseResult' = IF outcome.kind = "error" THEN ErrorResult(outcome.error)
                          ELSE parseResult
        /\ parsePc' = IF outcome.kind = "throw" THEN "thrown"
                      ELSE IF idx + 1 = Len(enchantmentEntries) /\ parseResult' # NoResult
                        THEN "returned" ELSE "loop"
  /\ UNCHANGED <<enchItem, enchantmentsStr, enchantmentEntries, notEnchVars>>

\* One iteration of the for loop over the entries.
parseEntry ==
  /\ parsePc = "loop"
  /\ idx < Len(enchantmentEntries)
  /\ LET outcome == checkEntry(enchItem, enchantmentEntries[idx + 1])
     IN /\ idx' = idx + 1
        /\ CASE outcome.kind = "error" ->
                  /\ parseResult' = ErrorResult(outcome.error)
                  /\ parsePc' = "returned"
                  /\ UNCHANGED enchantments
             [] outcome.kind = "throw" ->
                  /\ parsePc' = "thrown"
                  /\ UNCHANGED <<parseResult, enchantments>>
             [] outcome.kind = "ok" ->
                  /\ enchantments' = push(enchantments, outcome.enchantment)
                  /\ UNCHANGED <<parseResult, parsePc>>
  /\ UNCHANGED <<enchItem, enchantmentsStr, enchantmentEntries, notEnchVars>>

\* The loop has run through every entry: return { enchantments }.
parseReturn ==
  /\ parsePc = "loop"
  /\ idx = Len(enchantmentEntries)
  /\ parseResult' = ListResult(enchantments)
  /\ parsePc' = "returned"
  /\ UNCHANGED <<enchItem, enchantmentsStr, enchantmentEntries, idx, enchantments,
                 notEnchVars>>

(***************************************************************************)
(* Specification SpecEnchant: parseEnchantments on the strings made of up  *)
(* to MaxEntries entry texts joined by ", ".                               *)
(***************************************************************************)
\* The entry texts.
txt ==
  [ sharpness |-> <<"S", "h", "a", "r", "p", "n", "e", "s", "s">>,
    sharpnessV |-> <<"S", "h", "a", "r", "p", "n", "e", "s", "s", " ", "V">>,
    sharpnessVI |-> <<"S", "h", "a", "r", "p", "n", "e", "s", "s", " ", "V", "I">>,
    fireAspect |-> <<"F", "i", "r", "e", " ", "A", "s", "p", "e", "c", "t">>,
    fireAspectII |-> <<"F", "i", "r", "e", " ", "A", "s", "p", "e", "c", "t", " ", "I", "I">>,
    mending1 |-> <<"M", "e", "n", "d", "i", "n", "g", " ", "1">>,
    potencyXII |-> <<"P", "o", "t", "e", "n", "c", "y", " ", "X", "I", "I">>,
    sharpDashNess |-> <<"S", "h", "a", "r", "p", "-", "n", "e", "s", "s">>,
    notARealEnchant |-> <<"N", "o", "t", " ", "A", " ", "R", "e", "a", "l", " ", "E", "n", "c", "h", "a", "n", "t">>,
    bogus |-> <<"B", "o", "g", "u", "s">> ]

EntryTexts == {txt[k] : k \in DOMAIN txt}

EnchantmentStrings ==
  { join(texts, <<",", " ">>) :
      texts \in UNION {[1..n -> EntryTexts] : n \in 1..MaxEntries} }

EnchInit ==
  /\ \E typeId \in {"sword", "apple"} : enchItem = NewItem(typeId)
  /\ enchantmentsStr \in EnchantmentStrings
  /\ enchantmentEntries = <<>>
  /\ idx = 0
  /\ enchantments = <<>>
  /\ parseResult = NoResult
  /\ parsePc = "call"
  /\ incompatible \in {<<>>, typeIds.sharpness, typeIds.fireAspect}
  /\ nanOutcome \in {"true", "false", "throw"}
  /\ stackOrderMatters = TRUE
  /\ Idle({"ench"})

EnchNext == parseStart \/ parseEntry \/ parseReturn

SpecEnchant == EnchInit /\ [][EnchNext]_vars

(***************************************************************************)
(* Claims about parseEnchantments.                                         *)
(***************************************************************************)
RegisteredIds == {t.id : t \in Registry}

\* The entry's whole text is the display name of a registered type.
NamedType(entry) == replaceSpaces(toLowerCase(entry))

\* C6: an entry that names a registered enchantment and carries no level
\* gets level 1, for one-word and several-word names alike.
C6_MissingLevelIsOne ==
  \A i \in 1..idx :
    (/\ NamedType(enchantmentEntries[i]) \in RegisteredIds
     /\ NamedType(enchantmentEntries[i]) # incompatible)
      => /\ Len(enchantments) >= i
         /\ enchantments[i] = [type |-> NamedType(enchantmentEntries[i]), level |-> Num(1)]

\* C7: every descriptor of a successful result has an integer level within
\* 1..maxLevel of its type, whatever the level text was.
C7_LevelInRange ==
  (parsePc = "returned" /\ parseResult.hasEnchantments) =>
    \A i \in 1..Len(parseResult.enchantments) :
      LET d == parseResult.enchantments[i]
      IN /\ ~ d.level.nan
         /\ 1 <= d.level.val
         /\ d.level.val <= EnchantmentTypesGet(d.type).maxLevel

\* Number of comma-separated entries of the input string.
EntryCount == Cardinality({i \in 1..Len(enchantmentsStr) : enchantmentsStr[i] = ","}) + 1

\* The i-th comma-separated entry of the input string, trimmed.
InputEntry(i) == splitEntries(enchantmentsStr)[i]

\* Position of the first entry that does not pass its checks (0: none).
FirstFailing ==
  LET bad == {i \in 1..EntryCount : checkEntry(enchItem, InputEntry(i)).kind # "ok"}
  IN IF bad = {} THEN 0 ELSE CHOOSE i \in bad : \A j \in bad : i <= j

\* C8: fail-fast: a result carries exactly one of a list or an error, an
\* error result carries no partial list, the error is the one of the first
\* entry in input order that fails a check, and no later entry is examined.
C8_FailFast ==
  parsePc = "returned" =>
    /\ parseResult.hasError # parseResult.hasEnchantments
    /\ parseResult.hasError => parseResult.enchantments = <<>>
    /\ (parseResult.hasError /\ parseResult.error.kind = "notEnchantable") => idx = 0
    /\ (parseResult.hasError /\ parseResult.error.kind # "notEnchantable") =>
         /\ FirstFailing >= 1
         /\ idx = FirstFailing
         /\ checkEntry(enchItem, InputEntry(FirstFailing)).kind = "error"
         /\ parseResult.error = checkEntry(enchItem, InputEntry(FirstFailing)).error

\* The error of the first of two failing entries is returned and the second
\* entry was never examined.
C8_Witness ==
  /\ parsePc = "returned"
  /\ parseResult.hasError
  /\ idx = 1
  /\ EntryCount = 2
  /\ checkEntry(enchItem, InputEntry(2)).kind = "error"
  /\ checkEntry(enchItem, InputEntry(2)).error # parseResult.error

\* C9: when every entry passes its checks the result holds exactly one
\* descriptor per comma-separated entry, in the order of the entries.
C9_OneDescriptorPerEntryInOrder ==
  (parsePc = "returned" /\ parseResult.hasEnchantments) =>
    /\ FirstFailing = 0
    /\ Len(parseResult.enchantments) = EntryCount
    /\ \A i \in 1..EntryCount :
         parseResult.enchantments[i] = checkEntry(enchItem, InputEntry(i)).enchantment

\* A list of two descriptors of different types is returned.
C9_Witness ==
  /\ parsePc = "returned"
  /\ parseResult.hasEnchantments
  /\ Len(parseResult.enchantments) >= 2
  /\ parseResult.enchantments[1].type # parseResult.enchantments[2].type

RomanSymbols == {"I", "V", "X", "L", "C", "D", "M"}

IsRomanNumeral(text) == Len(text) > 0 /\ \A i \in 1..Len(text) : text[i] \in RomanSymbols

\* The entry examined last: its pattern match, type and level.
LastEntry == enchantmentEntries[idx]

LastMatch == enchantmentPattern(LastEntry)

LastType == EnchantmentTypesGet(replaceSpaces(toLowerCase(trim(LastMatch.name))))

LastLevel == IF LastMatch.hasLevel THEN romanToNumber(LastMatch.levelStr) ELSE Num(1)

\* The last examined entry names a registered type with a level above its maximum.
LevelExceedsMax ==
  /\ idx >= 1
  /\ LastMatch.matched
  /\ LastType # NoType
  /\ ~ LastLevel.nan
  /\ LastLevel.val > LastType.maxLevel

\* C10 as stated: a level above the maximum yields the level-too-high error,
\* which cites the maximum as a Roman numeral.
C10_CitesRomanNumeral ==
  LevelExceedsMax =>
    /\ parsePc = "returned"
    /\ parseResult.error.kind = "levelTooHigh"
    /\ IsRomanNumeral(parseResult.error.cited)

\* C10 (amended): a level above the maximum yields the level-too-high error,
\* which cites the maximum as a Roman numeral when the maximum is at most 10
\* (5 is cited as "V") and in decimal digits when it is above 10; with
\* maximum 5, level text "V" gives (type, 5) and "VI" is rejected.
C10_CitesMaxNumeralUpToTen ==
  /\ LevelExceedsMax =>
       /\ parsePc = "returned"
       /\ parseResult.error.kind = "levelTooHigh"
       /\ LastType.maxLevel <= 10 =>
            /\ IsRomanNumeral(parseResult.error.cited)
            /\ romanToNumber(parseResult.error.cited) = Num(LastType.maxLevel)
       /\ LastType.maxLevel = 5 => parseResult.error.cited = <<"V">>
       /\ LastType.maxLevel > 10 =>
            parseResult.error.cited = toDecimalString(LastType.maxLevel)
  /\ \A i \in 1..idx :
       /\ (enchantmentEntries[i] = txt.sharpnessV /\ incompatible # typeIds.sharpness)
            => /\ Len(enchantments) >= i
               /\ enchantments[i] = [type |-> typeIds.sharpness, level |-> Num(5)]
       /\ enchantmentEntries[i] = txt.sharpnessVI
            => /\ parsePc = "returned"
               /\ parseResult.error.kind = "levelTooHigh"
               /\ parseResult.error.cited = <<"V">>

\* "Sharpness V, Sharpness VI": level V was accepted as (sharpness, 5) and
\* level VI was rejected citing "V".
C10_Witness ==
  /\ parsePc = "returned"
  /\ idx = 2
  /\ enchantmentEntries[1] = txt.sharpnessV
  /\ enchantmentEntries[2] = txt.sharpnessVI
  /\ enchantments = <<[type |-> typeIds.sharpness, level |-> Num(5)]>>
  /\ parseResult.error.kind = "levelTooHigh"
  /\ parseResult.error.cited = <<"V">>

\* No leading run of the entry's words is the name of a registered type.
UnknownName(entry) ==
  /\ Len(entry) > 0
  /\ \A i \in 1..Len(entry) : entry[i] \in WordChars \cup SpaceChars
  /\ \A k \in 1..Len(entry) :
       (k = Len(entry) \/ entry[k + 1] \in SpaceChars)
         => NamedType(SubSeq(entry, 1, k)) \notin RegisteredIds

\* C11: an entry that names no registered enchantment, such as
\* "Not A Real Enchant", yields the unknown-identifier error, whose message
\* names the entry text.
C11_UnknownIdentifierNamesEntry ==
  (idx >= 1 /\ UnknownName(LastEntry)) =>
    /\ parsePc = "returned"
    /\ parseResult.error.kind = "invalidIdentifier"
    /\ parseResult.error.text = LastEntry

\* C12: for an item without an enchantable component the call returns the
\* "cannot be enchanted" error for every input string, before the string is
\* split and before any entry is matched, looked up or checked.
C12_NotEnchantableRejectedFirst ==
  (parsePc # "call" /\ ~ hasComponent(enchItem, "enchantable")) =>
    /\ parsePc = "returned"
    /\ parseResult.hasError /\ ~ parseResult.hasEnchantments
    /\ parseResult.error.kind = "notEnchantable"
    /\ enchantmentEntries = <<>>
    /\ idx = 0
    /\ enchantments = <<>>

\* The error is returned for an apple and a string of two well-formed entries.
C12_Witness ==
  /\ parsePc = "returned"
  /\ enchItem.typeId = "apple"
  /\ parseResult.error.kind = "notEnchantable"
  /\ enchantmentsStr = join(<<txt.sharpnessV, txt.fireAspectII>>, <<",", " ">>)

(***************************************************************************)
(* utils: the numeral codec applied to a number, then to its own output.   *)
(***************************************************************************)
\* convertToRomanNumerals on a value that may be NaN: every comparison with
\* NaN is false, so neither the decimal branch nor a loop body is taken.
convertNumber(x) == IF x.nan THEN <<>> ELSE convertToRomanNumerals(x.val)

\* numeral = convertToRomanNumerals(codecNum)
Encode ==
  /\ codecPc = "start"
  /\ numeral' = convertToRomanNumerals(codecNum)
  /\ codecPc' = "encoded"
  /\ UNCHANGED <<codecNum, decoded, again, notCodecVars>>

\* decoded = romanToNumber(numeral)
Decode ==
  /\ codecPc = "encoded"
  /\ decoded' = romanToNumber(numeral)
  /\ codecPc' = "decoded"
  /\ UNCHANGED <<codecNum, numeral, again, notCodecVars>>

\* again = convertToRomanNumerals(decoded)
Reencode ==
  /\ codecPc = "decoded"
  /\ again' = convertNumber(decoded)
  /\ codecPc' = "done"
  /\ UNCHANGED <<codecNum, numeral, decoded, notCodecVars>>

CodecInit ==
  /\ codecNum \in 0..MaxNumber
  /\ numeral = <<>> /\ decoded = NaN /\ again = <<>>
  /\ codecPc = "start"
  /\ stackOrderMatters = TRUE
  /\ Idle({"codec"})

CodecNext == Encode \/ Decode \/ Reencode

SpecCodec == CodecInit /\ [][CodecNext]_vars

\* C13: for every integer n with 1 <= n <= 10, writing n as a numeral,
\* reading the numeral back and writing the number read again gives the
\* numeral of n.
C13_NumeralRoundTrip ==
  (codecPc = "done" /\ codecNum \in 1..10) => again = numeral

\* 9 is written IX, read back as 9 and written IX again.
C13_Witness ==
  /\ codecPc = "done" /\ codecNum = 9
  /\ numeral = <<"I", "X">> /\ decoded = Num(9) /\ again = <<"I", "X">>

(***************************************************************************)
(* utils: parseCoords and parseCoordinateWithDirection.                    *)
(* Coordinates and offsets are integers; the yaw is a multiple of 90       *)
(* degrees, where the sine and the cosine are -1, 0 or 1.                  *)
(***************************************************************************)
\* String.prototype.startsWith for a one-character prefix
startsWith(str, ch) == Len(str) > 0 /\ str[1] = ch

RECURSIVE splitSpaces(_)
\* str.split(/\s+/)
splitSpaces(str) ==
  LET at == {i \in 1..Len(str) : str[i] \in SpaceChars}
  IN IF at = {} THEN <<str>>
     ELSE LET first == CHOOSE i \in at : \A j \in at : i <= j
              after == {i \in first..Len(str) : str[i] \notin SpaceChars}
              next == IF after = {} THEN Len(str) + 1
                      ELSE CHOOSE i \in after : \A j \in after : i <= j
          IN <<SubSeq(str, 1, first - 1)>> \o splitSpaces(SubSeq(str, next, Len(str)))

RECURSIVE digitsValue(_, _)
\* Value of the decimal digits str[1..k].
digitsValue(str, k) ==
  IF k = 0 THEN 0
  ELSE 10 * digitsValue(str, k - 1)
         + (CHOOSE d \in 1..Len(DigitChars) : DigitChars[d] = str[k]) - 1

\* parseFloat on text without a fraction or an exponent: an optional sign
\* and the longest run of digits are read, whatever follows is ignored, and
\* the result is NaN when no digit is there.
parseFloat(str) ==
  LET signed == Len(str) > 0 /\ str[1] \in {"+", "-"}
      body == IF signed THEN Tail(str) ELSE str
      stop == {i \in 1..Len(body) : body[i] \notin Range(DigitChars)}
      k == IF stop = {} THEN Len(body)
           ELSE (CHOOSE i \in stop : \A j \in stop : i <= j) - 1
  IN IF k = 0 THEN NaN
     ELSE IF signed /\ str[1] = "-" THEN Num(0 - digitsValue(body, k))
     ELSE Num(digitsValue(body, k))

\* Math.sin(degreesToRadians(yaw)) and Math.cos(degreesToRadians(yaw))
sinDegrees(yaw) ==
  CASE yaw % 360 = 0 -> 0 [] yaw % 360 = 90 -> 1
    [] yaw % 360 = 180 -> 0 [] yaw % 360 = 270 -> -1

cosDegrees(yaw) ==
  CASE yaw % 360 = 0 -> 1 [] yaw % 360 = 90 -> 0
    [] yaw % 360 = 180 -> -1 [] yaw % 360 = 270 -> 0

\* What parseCoordinateWithDirection returns: a number or its error string.
CoordValue(v) == [isString |-> FALSE, value |-> v]

CoordError == [isString |-> TRUE, value |-> 0]

\* A parseCoordinateWithDirection that returns the offset of a relative
\* token without the base.
parseCoordinateWithoutBase(player, input, base, axis) ==
  IF startsWith(input, "~")
    THEN LET relativeValue == parseFloat(Tail(input))
         IN IF relativeValue.nan THEN CoordValue(base) ELSE CoordValue(relativeValue.val)
  ELSE IF startsWith(input, "^")
    THEN CoordValue(base)
  ELSE LET absoluteValue == parseFloat(input)
       IN IF absoluteValue.nan THEN CoordError ELSE CoordValue(absoluteValue.val)

\* Tail(input) is input.slice(1).
parseCoordinateWithDirection(player, input, base, axis) ==
  IF startsWith(input, "~")
    THEN LET relativeValue == parseFloat(Tail(input))
         IN IF relativeValue.nan THEN CoordValue(base)
            ELSE CoordValue(base + relativeValue.val)
  ELSE IF startsWith(input, "^")
    THEN LET parsed == parseFloat(Tail(input))
             localValue == IF parsed.nan THEN 0 ELSE parsed.val
         IN CASE axis = "x" -> CoordValue(base + (0 - sinDegrees(player.rotationY)) * localValue)
              [] axis = "z" -> CoordValue(base + cosDegrees(player.rotationY) * localValue)
              [] axis = "y" -> CoordValue(base + localValue)
  ELSE LET absoluteValue == parseFloat(input)
       IN IF absoluteValue.nan THEN CoordError ELSE CoordValue(absoluteValue.val)

\* components.some(c => c.startsWith("~")), components.some(c => c.startsWith("^"))
isRelative(components) == \E i \in 1..Len(components) : startsWith(components[i], "~")

\* A test for local markers that asks every component to carry one.
isLocalEvery(components) == \A i \in 1..Len(components) : startsWith(components[i], "^")

isLocal(components) == \E i \in 1..Len(components) : startsWith(components[i], "^")

\* What parseCoords returns: an error string or a Vector3.
NoVector == [x |-> 0, y |-> 0, z |-> 0]

CoordsString(text) == [isString |-> TRUE, text |-> text, vector |-> NoVector]

CoordsVector(x, y, z) ==
  [isString |-> FALSE, text |-> "", vector |-> [x |-> x, y |-> y, z |-> z]]

countError == "Error: Invalid coordinate input. Expected three components (x, y, z)."

mixError == "Error: Cannot mix relative (~) and local (^) coordinates."

parseError == "Error: One or more coordinates could not be parsed."

parseCoords(player, input) ==
  LET components == splitSpaces(trim(input))
  IN IF Len(components) # 3 THEN CoordsString(countError)
     ELSE IF isRelative(components) /\ isLocal(components) THEN CoordsString(mixError)
     ELSE LET playerLocation == player.location
              x == parseCoordinateWithDirection(player, components[1], playerLocation.x, "x")
              y == parseCoordinateWithDirection(player, components[2], playerLocation.y, "y")
              z == parseCoordinateWithDirection(player, components[3], playerLocation.z, "z")
          IN IF x.isString \/ y.isString \/ z.isString THEN CoordsString(parseError)
             ELSE CoordsVector(x.value, y.value, z.value)

\* Tokens of the inputs.
tok ==
  [ ten |-> <<"1", "0">>,
    minusOne |-> <<"-", "1">>,
    tilde |-> <<"~">>,
    tildeMinusOne |-> <<"~", "-", "1">>,
    tildeOne |-> <<"~", "1">>,
    caret |-> <<"^">>,
    caretOne |-> <<"^", "1">>,
    caretMinusTwo |-> <<"^", "-", "2">>,
    abc |-> <<"a", "b", "c">>,
    tildeAbc |-> <<"~", "a", "b", "c">>,
    caretAbc |-> <<"^", "a", "b", "c">>,
    oneX |-> <<"1", "x">> ]

CoordTokens == {tok[k] : k \in DOMAIN tok}

\* Three tokens separated by single spaces; also inputs with another number
\* of tokens, and one padded with more whitespace.
CoordInputs ==
  { join(<<a, b, c>>, <<" ">>) : a \in CoordTokens, b \in CoordTokens, c \in CoordTokens }
    \cup { <<>>, join(<<tok.ten, tok.ten>>, <<" ">>),
           join(<<tok.ten, tok.ten, tok.ten, tok.ten>>, <<" ">>),
           <<" ">> \o join(<<tok.tilde, tok.tildeMinusOne, tok.tilde>>, <<" ", " ">>) \o <<" ">> }

\* parseCoords(player, input)
ParseCoords ==
  /\ coordPc = "call"
  /\ coordResult' = parseCoords(coordPlayer, coordInput)
  /\ coordPc' = "returned"
  /\ UNCHANGED <<coordPlayer, coordInput, notCoordVars>>

CoordInit ==
  /\ coordPlayer \in [location : {[x |-> 10, y |-> 64, z |-> 10], [x |-> -3, y |-> 70, z |-> 5]},
                      rotationY : {-180, -90, 0, 90}]
  /\ coordInput \in CoordInputs
  /\ coordResult = CoordsString("") /\ coordPc = "call"
  /\ stackOrderMatters = TRUE
  /\ Idle({"coord"})

CoordNext == ParseCoords

SpecCoords == CoordInit /\ [][CoordNext]_vars

\* The tokens of the input as the caller typed them.
CoordComponents == splitSpaces(trim(coordInput))

\* The text is a decimal integer: an optional sign, then digits only.
IsNumberText(text) ==
  LET body == IF Len(text) > 0 /\ text[1] \in {"+", "-"} THEN Tail(text) ELSE text
  IN Len(body) > 0 /\ \A i \in 1..Len(body) : body[i] \in Range(DigitChars)

\* An absolute token that is not a number, or a marked token whose text
\* after the marker is there and is not a number.
Malformed(token) ==
  IF startsWith(token, "~") \/ startsWith(token, "^")
    THEN Len(token) > 1 /\ ~ IsNumberText(Tail(token))
    ELSE ~ IsNumberText(token)

Mixed(components) ==
  /\ \E i \in 1..Len(components) : startsWith(components[i], "~")
  /\ \E i \in 1..Len(components) : startsWith(components[i], "^")

\* C14: when any of the three tokens is malformed (and the input does not
\* mix the two markers, which is answered by the mix error), parseCoords
\* returns the generic parse-failure error and no vector.
C14_MalformedTokenRejected ==
  ( /\ coordPc = "returned"
    /\ Len(CoordComponents) = 3
    /\ ~ Mixed(CoordComponents)
    /\ \E i \in 1..3 : Malformed(CoordComponents[i]) )
  => coordResult = CoordsString(parseError)

\* C15: a three-token input with a token starting with "~" and a token
\* starting with "^" gets the mix error, whatever the rest of the tokens is.
C15_MixRejected ==
  (coordPc = "returned" /\ Len(CoordComponents) = 3 /\ Mixed(CoordComponents))
    => coordResult = CoordsString(mixError)

\* "~1 ^1 ~1" and "~abc ^ 1x" are both answered by the mix error.
C15_Witness ==
  /\ coordPc = "returned"
  /\ coordResult = CoordsString(mixError)
  /\ CoordComponents \in { <<tok.tildeOne, tok.caretOne, tok.tildeOne>>,
                           <<tok.tildeAbc, tok.caret, tok.oneX>> }

\* The offsets that the well-formed relative tokens of the inputs denote.
RelativeOffset(token) ==
  CASE token = tok.tilde -> 0 [] token = tok.tildeMinusOne -> -1 [] token = tok.tildeOne -> 1

RelativeTokens == { tok.tilde, tok.tildeMinusOne, tok.tildeOne }

\* C16: in a relative input each token "~v" yields the origin's component
\* on its axis plus v and a bare "~" yields the component unchanged; from
\* (10, 64, 10) the input "~ ~-1 ~" yields (10, 63, 10).
C16_RelativeAddsToOrigin ==
  ( /\ coordPc = "returned"
    /\ Len(CoordComponents) = 3
    /\ \A i \in 1..3 : CoordComponents[i] \in RelativeTokens )
  => /\ ~ coordResult.isString
     /\ coordResult.vector.x = coordPlayer.location.x + RelativeOffset(CoordComponents[1])
     /\ coordResult.vector.y = coordPlayer.location.y + RelativeOffset(CoordComponents[2])
     /\ coordResult.vector.z = coordPlayer.location.z + RelativeOffset(CoordComponents[3])
     /\ ( /\ coordPlayer.location = [x |-> 10, y |-> 64, z |-> 10]
          /\ CoordComponents = <<tok.tilde, tok.tildeMinusOne, tok.tilde>> )
        => coordResult.vector = [x |-> 10, y |-> 63, z |-> 10]

\* "~ ~-1 ~" from (10, 64, 10) has returned (10, 63, 10).
C16_Witness ==
  /\ coordPc = "returned"
  /\ coordPlayer.location = [x |-> 10, y |-> 64, z |-> 10]
  /\ coordInput = join(<<tok.tilde, tok.tildeMinusOne, tok.tilde>>, <<" ">>)
  /\ coordResult = CoordsVector(10, 63, 10)

\* The distance that a local forward token of the inputs denotes.
LocalDistance(token) ==
  CASE token = tok.caret -> 0 [] token = tok.caretOne -> 1 [] token = tok.caretMinusTwo -> -2

\* C17: for the local input "^ ^ ^d" and a yaw that is a multiple of 90
\* degrees, the result is the origin displaced by d along the horizontal
\* facing direction (-sin(yaw), 0, cos(yaw)).
C17_LocalForwardAlongFacing ==
  ( /\ coordPc = "returned"
    /\ Len(CoordComponents) = 3
    /\ CoordComponents[1] = tok.caret /\ CoordComponents[2] = tok.caret
    /\ CoordComponents[3] \in { tok.caret, tok.caretOne, tok.caretMinusTwo } )
  => LET d == LocalDistance(CoordComponents[3])
         yaw == coordPlayer.rotationY
     IN coordResult =
          CoordsVector(coordPlayer.location.x + (0 - sinDegrees(yaw)) * d,
                       coordPlayer.location.y,
                       coordPlayer.location.z + cosDegrees(yaw) * d)

(***************************************************************************)
(* utils: FormFieldManager.                                                *)
(***************************************************************************)
\* Array.prototype.indexOf: the first position of x, counted from 0, or -1
indexOf(arr, x) ==
  LET at == {i \in 1..Len(arr) : arr[i] = x}
  IN IF at = {} THEN -1 ELSE (CHOOSE i \in at : \A j \in at : i <= j) - 1

\* A lookup that returns the last position of the name.
getFieldIndexLast(registry, name) ==
  LET at == {i \in 1..Len(registry) : registry[i] = name}
  IN IF at = {} THEN -1 ELSE (CHOOSE i \in at : \A j \in at : i >= j) - 1

\* getFieldIndex(name) on a manager whose fields array is registry
getFieldIndex(registry, name) == indexOf(registry, name)

\* How a getValue call ends.
Returned(value) == [threw |-> FALSE, value |-> value]

Threw == [threw |-> TRUE, value |-> "TypeError"]

\* A getValue that reads formValues.length without testing formValues.
getValueUnguarded(registry, response, name, defaultValue) ==
  LET index == getFieldIndex(registry, name)
  IN IF index = -1 THEN Returned(defaultValue)
     ELSE IF ~ response.hasValues THEN Threw
     ELSE IF index < Len(response.formValues)
       THEN Returned(response.formValues[index + 1])
     ELSE Returned(defaultValue)

getValue(registry, response, name, defaultValue) ==
  LET index == getFieldIndex(registry, name)
  IN IF response.hasValues /\ index # -1 /\ index < Len(response.formValues)
       THEN Returned(response.formValues[index + 1])
       ELSE Returned(defaultValue)

FieldNames == {"nameTag", "lore", "amount"}

\* A response without formValues, or with up to MaxValues values.
Responses ==
  {[hasValues |-> FALSE, formValues |-> <<>>]}
    \cup {[hasValues |-> TRUE, formValues |-> v] : v \in SeqsUpTo({"va", "vb"}, MaxValues)}

NoCall ==
  [called |-> FALSE, registry |-> <<>>, response |-> [hasValues |-> FALSE, formValues |-> <<>>],
   name |-> "", defaultValue |-> "", result |-> Returned("")]

\* addField(name): the name is pushed and its position is returned.
AddField ==
  /\ Len(fields) < MaxFields
  /\ \E name \in FieldNames :
       /\ fields' = push(fields, name)
       /\ added' = Append(added, [name |-> name, index |-> Len(fields') - 1])
  /\ UNCHANGED <<got, notFieldVars>>

\* getValue(response, name, defaultValue)
GetValue ==
  /\ \E response \in Responses, name \in FieldNames, defaultValue \in {"dflt"} :
       got' = [called |-> TRUE, registry |-> fields, response |-> response,
               name |-> name, defaultValue |-> defaultValue,
               result |-> getValue(fields, response, name, defaultValue)]
  /\ UNCHANGED <<fields, added, notFieldVars>>

FieldInit ==
  /\ fields = <<>> /\ added = <<>> /\ got = NoCall
  /\ stackOrderMatters = TRUE
  /\ Idle({"field"})

FieldNext == AddField \/ GetValue

SpecFields == FieldInit /\ [][FieldNext]_vars

\* The addField calls made for the name, by their position in the call order.
CallsFor(name) == {k \in 1..Len(added) : added[k].name = name}

\* C18 as stated: the k-th addField call returned k-1, and getFieldIndex(name)
\* is the index that addField returned for the name, for every call made for
\* it, also when the name was registered more than once, and -1 for a name
\* that was never registered.
C18_LookupIsReturnedIndex ==
  /\ \A k \in 1..Len(added) : added[k].index = k - 1
  /\ \A name \in FieldNames :
       IF CallsFor(name) = {} THEN getFieldIndex(fields, name) = -1
       ELSE \A k \in CallsFor(name) : getFieldIndex(fields, name) = added[k].index

\* C18, amended: the k-th addField call returned k-1, and getFieldIndex(name)
\* is the index that the first addField call for the name returned, or -1
\* for a name that was never registered.
C18_LookupIsFirstReturnedIndex ==
  /\ \A k \in 1..Len(added) : added[k].index = k - 1
  /\ \A name \in FieldNames :
       IF CallsFor(name) = {} THEN getFieldIndex(fields, name) = -1
       ELSE \E k \in CallsFor(name) :
              /\ \A j \in CallsFor(name) : k <= j
              /\ getFieldIndex(fields, name) = added[k].index

\* "lore" was registered first and third, "amount" never: the lookups give
\* 0 and -1, while the third call returned 2.
C18_Witness ==
  /\ Len(added) = 3
  /\ added[1].name = "lore" /\ added[2].name = "nameTag" /\ added[3].name = "lore"
  /\ added[3].index = 2
  /\ getFieldIndex(fields, "lore") = 0
  /\ getFieldIndex(fields, "amount") = -1

\* The positions of the name in the registry that a call was made on.
PositionsIn(registry, name) == {i \in 1..Len(registry) : registry[i] = name}

\* C19: getValue never throws; it returns the caller's default when the
\* name was never registered, the response carries no values, or the name's
\* index is at or past the end of the values, and the response value at the
\* name's index otherwise.
C19_GetValueOrDefault ==
  got.called =>
    LET at == PositionsIn(got.registry, got.name)
        first == CHOOSE i \in at : \A j \in at : i <= j
    IN /\ ~ got.result.threw
       /\ IF at = {} \/ ~ got.response.hasValues \/ first - 1 >= Len(got.response.formValues)
            THEN got.result.value = got.defaultValue
            ELSE got.result.value = got.response.formValues[first]

\* Both outcomes: the value at index 1 of a two-value response for the
\* second registered name, and the default for a response without values.
C19_Witness ==
  /\ got.called /\ ~ got.result.threw
  /\ got.registry = <<"nameTag", "lore">> /\ got.name = "lore"
  /\ \/ got.response.formValues = <<"va", "vb">> /\ got.result.value = "vb"
     \/ ~ got.response.hasValues /\ got.result.value = "dflt"

(***************************************************************************)
(* utils: idToName and formatEnchantments, and the specification           *)
(* SpecPrefill: the enchantments of an item are formatted as the edit form *)
(* pre-fills them, and the text is parsed back.                            *)
(***************************************************************************)
\* word.charAt(0).toUpperCase() + word.slice(1)
capitalize(word) ==
  IF word = <<>> THEN <<>>
  ELSE <<IF word[1] \in Range(LowerLetters)
           THEN UpperLetters[CHOOSE k \in 1..Len(LowerLetters) : LowerLetters[k] = word[1]]
           ELSE word[1]>>
         \o Tail(word)

idToName(id) ==
  LET noNamespace == IF Includes(id, ":") THEN split(id, ":")[2] ELSE id
      namePart == [i \in 1..Len(noNamespace) |->
                     IF noNamespace[i] = "_" THEN " " ELSE noNamespace[i]]
      words == split(namePart, " ")
  IN join([i \in 1..Len(words) |-> capitalize(words[i])], <<" ">>)

\* formatEnchantments, and the same expression in editItemDetails: the names
\* and numerals of the enchantments, joined by ", ".
formatEnchantments(list) ==
  join([i \in 1..Len(list) |->
          idToName(list[i].type) \o <<" ">> \o convertToRomanNumerals(list[i].level)],
       <<",", " ">>)

\* The lists of enchantments an item accepts: registered types, each once,
\* with a level from 1 up to the type's maximum.
AcceptedEnchantments ==
  { list \in UNION { [1..n -> { [type |-> t.id, level |-> l] :
                                  t \in Registry, l \in 1..11 }] : n \in 1..MaxEntries } :
      /\ \A i \in 1..Len(list) : list[i].level <= EnchantmentTypesGet(list[i].type).maxLevel
      /\ \A i, j \in 1..Len(list) : list[i].type = list[j].type => i = j }

\* The text that the edit form pre-fills for the item's enchantments.
Prefill ==
  /\ parsePc = "format"
  /\ enchantmentsStr' = formatEnchantments(enchItem.enchantments)
  /\ parsePc' = "call"
  /\ UNCHANGED <<enchItem, enchantmentEntries, idx, enchantments, parseResult, notEnchVars>>

PrefillInit ==
  /\ \E list \in AcceptedEnchantments :
       enchItem = [NewItem("sword") EXCEPT !.enchantments = list]
  /\ enchantmentsStr = <<>>
  /\ enchantmentEntries = <<>>
  /\ idx = 0
  /\ enchantments = <<>>
  /\ parseResult = NoResult
  /\ parsePc = "format"
  /\ incompatible = <<>>
  /\ nanOutcome \in {"true", "false", "throw"}
  /\ stackOrderMatters = TRUE
  /\ Idle({"ench"})

SpecPrefill ==
  PrefillInit /\ [][Prefill \/ parseStart \/ parseEntry \/ parseReturn]_vars

\* C27: formatting and parsing round-trip: for every list of enchantments
\* the item accepts, with one-word and several-word type names and levels
\* from 1 up to the type's maximum (maxima above 10 included),
\* parseEnchantments applied to the pre-filled text returns the same types
\* and levels in the same order.
C27_PrefillParsesBack ==
  (parsePc \in {"returned", "thrown"} /\ enchItem.enchantments # <<>>)
  => /\ parsePc = "returned"
     /\ parseResult
          = ListResult([i \in 1..Len(enchItem.enchantments) |->
                          [type |-> enchItem.enchantments[i].type,
                           level |-> Num(enchItem.enchantments[i].level)]])

(***************************************************************************)
(* main: the menu flow from the script event through the main menu, the    *)
(* entity selector, the item list, the item details, the edit form and     *)
(* the error menu, and the sweep that runs every tick.                     *)
(***************************************************************************)
\* A viewer: a player of the overworld at (10, 64, 10), facing yaw 0.
Viewer ==
  [location |-> [x |-> 10, y |-> 64, z |-> 10], rotationY |-> 0, dimension |-> "overworld"]

\* The entities of the world, in the order getEntities lists them.
AllEntities == <<"steve", "villager", "cow", "piglin", "strider">>

EntityInfo ==
  [steve    |-> [dimension |-> "overworld", hasInventory |-> TRUE],
   villager |-> [dimension |-> "overworld", hasInventory |-> TRUE],
   cow      |-> [dimension |-> "overworld", hasInventory |-> FALSE],
   piglin   |-> [dimension |-> "nether",    hasInventory |-> TRUE],
   strider  |-> [dimension |-> "nether",    hasInventory |-> FALSE]]

\* What dimension.getBlock gives: an exception, undefined, or a block.
BlockOutcomes == {"throw", "undefined", "stone", "emptyChest", "chest"}

BlockInfo ==
  [stone      |-> [hasInventory |-> FALSE],
   emptyChest |-> [hasInventory |-> TRUE],
   chest      |-> [hasInventory |-> TRUE]]

\* The inventory of an entity or block that has one: its container, its
\* equipment, and for a player the selected hotbar slot and the game mode.
Holder(isPlayer, hasEquippable, gameMode, held, equipped) ==
  [isPlayer |-> isPlayer, hasEquippable |-> hasEquippable, gameMode |-> gameMode,
   selectedSlotIndex |-> 0,
   container |-> [i \in 1..ContainerSize |-> IF i <= Len(held) THEN held[i] ELSE NoItem],
   equipment |-> [slot \in Range(EquipmentSlots) |->
                    IF slot \in DOMAIN equipped THEN equipped[slot] ELSE NoItem]]

\* Container.setItem (slot indices start at 0)
setItem(entity, i, item) == [entity EXCEPT !.container[i + 1] = item]

\* EntityEquippableComponent.setEquipment: a player's main hand is the
\* selected slot of its container.
setEquipment(entity, slot, item) ==
  IF slot = "Mainhand" /\ entity.isPlayer
    THEN [entity EXCEPT !.container[entity.selectedSlotIndex + 1] = item]
    ELSE [entity EXCEPT !.equipment[slot] = item]

\* The world the menu flow starts in: steve holds a sword, the chest an apple.
MenuWorld ==
  [steve      |-> Holder(TRUE, TRUE, "survival", <<NewItem("sword")>>, <<>>),
   villager   |-> Holder(FALSE, FALSE, "none", <<>>, <<>>),
   piglin     |-> Holder(FALSE, TRUE, "none", <<>>, [Mainhand |-> NewItem("sword")]),
   emptyChest |-> Holder(FALSE, FALSE, "none", <<>>, <<>>),
   chest      |-> Holder(FALSE, FALSE, "none", <<NewItem("apple")>>, <<>>)]

\* The forms.  What a form's callback closes over is part of the form:
\* previousMenu of an error form, the entity list, the target, the container
\* argument, the buttons of the item list, the item, its slot, and the field
\* registry and widgets of the edit form.
NoForm ==
  [kind |-> "none", message |-> "", previousMenu |-> "none", entities |-> <<>>,
   target |-> "none", container |-> "none", itemIndices |-> <<>>, item |-> NoItem,
   isEquippable |-> FALSE, slotIndex |-> 0, slot |-> "none",
   fields |-> <<>>, widgets |-> <<>>]

Form(kind, message, previousMenu, entities, tgt) ==
  [NoForm EXCEPT !.kind = kind, !.message = message, !.previousMenu = previousMenu,
                 !.entities = entities, !.target = tgt]

MainMenuForm == Form("mainMenu", "", "none", <<>>, "none")

ListEntitiesForm(entities) == Form("listEntities", "", "none", entities, "none")

\* The buttons of listItems after "Go back": the equipment, then the
\* container's slots when the container argument is a Container.
listButtons(entity, container) ==
  EquippedButtons(entity)
    \o (IF container = "container" THEN ContainerButtons(entity) ELSE <<>>)

\* listItems(viewer, container, target, targetEntities)
ListItemsForm(tgt, container, targetEntities, w) ==
  [Form("listItems", "", "none", targetEntities, tgt)
     EXCEPT !.container = container, !.itemIndices = listButtons(w[tgt], container)]

\* itemDetails(viewer, container, item, slotIndex, target, isEquippable, targetEntities)
ItemDetailsForm(tgt, container, item, selected, targetEntities) ==
  [Form("itemDetails", "", "none", targetEntities, tgt)
     EXCEPT !.container = container, !.item = item,
            !.isEquippable = (selected.type = "equippable"),
            !.slotIndex = IF selected.type = "container" THEN selected.index ELSE 0,
            !.slot = IF selected.type = "equippable" THEN selected.index ELSE "none"]

ErrorForm(message, previousMenu, entities) ==
  Form("error", message, previousMenu, entities, "none")

\* A function that ends by showing a form, or by an exception.
Shows(f) == [threw |-> FALSE, form |-> f]

Throws == [threw |-> TRUE, form |-> NoForm]

\* The previousMenu callback that getContainer gives to its error forms.
backOf(targetEntities) == IF Len(targetEntities) > 1 THEN "listEntities" ELSE "mainMenu"

\* A test that never finds a list of entities.
hasNoLength(targetEntities) == FALSE

\* targetEntities?.length || 0 > 1: the length, when there is one that is not 0.
hasLength(targetEntities) == Len(targetEntities) > 0

\* The optional targetEntities argument as a callee receives it.
passOn(targetEntities) == IF hasLength(targetEntities) THEN targetEntities ELSE <<>>

\* getContainer(viewer, target, targetEntities); an absent targetEntities is <<>>.
getContainer(tgt, targetEntities, w) ==
  IF Includes(AllEntities, tgt)
    THEN IF ~ EntityInfo[tgt].hasInventory
           THEN Throws   \* container.emptySlotsCount is read on undefined
         ELSE LET isContainerEmpty == \A i \in 1..ContainerSize : w[tgt].container[i] = NoItem
                  areEquipmentSlotsEmpty ==
                    w[tgt].hasEquippable =>
                      \A slot \in Range(EquipmentSlots) : getEquipment(w[tgt], slot) = NoItem
              IN IF isContainerEmpty /\ areEquipmentSlotsEmpty
                   THEN Shows(ErrorForm(" has no items.", backOf(targetEntities),
                                        targetEntities))
                 ELSE Shows(ListItemsForm(tgt, "container", passOn(targetEntities), w))
  ELSE IF ~ BlockInfo[tgt].hasInventory
    THEN Shows(ErrorForm(" is not a container.", "mainMenu", <<>>))
  ELSE IF \A i \in 1..ContainerSize : w[tgt].container[i] = NoItem
    THEN Shows(ErrorForm("'s container is empty.", "mainMenu", <<>>))
  ELSE Shows(ListItemsForm(tgt, "container", <<>>, w))

\* The host's answer to the tag command of parseSelector, with the text.
SelectorInputs ==
  {[text |-> "", command |-> "none", matched |-> {}],
   [text |-> "@e[", command |-> "syntaxError", matched |-> {}],
   [text |-> "@e[name=x]", command |-> "commandError", matched |-> {}]}
    \cup {[text |-> "@e[...]", command |-> "ok", matched |-> S] :
            S \in SUBSET Range(AllEntities) \ {{}}}

\* parseSelector(source, selector): its result, and the entities that carry
\* a temporary tag when it returns.
parseSelector(source, selector, tags) ==
  IF selector.command = "syntaxError"
    THEN [hasError |-> TRUE, error |-> "Syntax error in the selector. Please check your selector.",
          entities |-> <<>>, tagged |-> tags]
  ELSE IF selector.command = "commandError"
    THEN [hasError |-> TRUE, error |-> "No targets matched selector",
          entities |-> <<>>, tagged |-> tags]
  ELSE LET hasTag(e) == e \in selector.matched /\ EntityInfo[e].dimension = source.dimension
           entities == SelectSeq(AllEntities, hasTag)   \* getEntities().filter(...)
       IN IF Len(entities) > 0
            THEN [hasError |-> FALSE, error |-> "", entities |-> entities,
                  tagged |-> tags \cup (selector.matched \ Range(entities))]
            ELSE [hasError |-> TRUE, error |-> "No entities matched the selector.",
                  entities |-> <<>>, tagged |-> tags \cup selector.matched]

\* Texts typed into the location field.
MenuLocations ==
  { <<>>,
    join(<<tok.tilde, tok.tildeMinusOne, tok.tilde>>, <<" ">>),
    join(<<tok.tildeAbc, tok.tilde, tok.tilde>>, <<" ">>),
    join(<<tok.abc, tok.ten, tok.ten>>, <<" ">>),
    join(<<tok.tildeOne, tok.caretOne, tok.tildeOne>>, <<" ">>),
    join(<<tok.ten, tok.ten>>, <<" ">>) }

\* A form response as the callback reads it.
NoSelector == [text |-> "", command |-> "none", matched |-> {}]

Response(kind, canceled, sourceType, selector, location, selection) ==
  [form |-> kind, canceled |-> canceled, sourceType |-> sourceType,
   selector |-> selector, location |-> location, selection |-> selection,
   hasValues |-> FALSE, formValues |-> <<>>]

NoResponse == Response("none", FALSE, 0, NoSelector, <<>>, 0)

\* The callback that ran last: the viewer, the form answered, the response,
\* and the world and the entity list the flow had gone through when the
\* callback began.
Handled(viewer, shown, result, w, through) ==
  [viewer |-> viewer, shown |-> shown, result |-> result, before |-> w,
   through |-> through]

MainMenuResponses ==
  {Response("mainMenu", TRUE, 0, NoSelector, <<>>, 0)}
    \cup {Response("mainMenu", FALSE, 0, s, <<>>, 0) : s \in SelectorInputs}
    \cup {Response("mainMenu", FALSE, 1, NoSelector, l, 0) : l \in MenuLocations}

\* The callback of mainMenu's form, for a response and for what getBlock
\* gives: the form shown next and the entities left tagged.
mainMenuCallback(result, block, tags, w) ==
  IF result.canceled THEN [form |-> NoForm, tagged |-> tags]
  ELSE IF result.sourceType = 0
    THEN IF result.selector.text = ""
           THEN [form |-> ErrorForm("No target selector was provided.", "mainMenu", <<>>),
                 tagged |-> tags]
         ELSE LET selector == parseSelector(Viewer, result.selector, tags)
              IN IF selector.hasError
                   THEN [form |-> ErrorForm(selector.error, "mainMenu", <<>>),
                         tagged |-> selector.tagged]
                 ELSE IF Len(selector.entities) > 1
                   THEN [form |-> ListEntitiesForm(selector.entities),
                         tagged |-> selector.tagged]
                 ELSE \* an exception ends the callback with no form shown
                      [form |-> getContainer(selector.entities[1], <<>>, w).form,
                       tagged |-> selector.tagged]
  ELSE IF result.location = <<>>
    THEN [form |-> ErrorForm("No block location was provided.", "mainMenu", <<>>),
          tagged |-> tags]
  ELSE LET playerCoords == parseCoords(Viewer, result.location)
       IN IF playerCoords.isString
            THEN [form |-> NoForm, tagged |-> tags]
          ELSE IF block = "throw"
            THEN [form |-> ErrorForm("Error occurred: ", "mainMenu", <<>>), tagged |-> tags]
          ELSE IF block = "undefined"
            THEN [form |-> ErrorForm("Block at position does not exist", "mainMenu", <<>>),
                  tagged |-> tags]
          ELSE \* getContainer does not throw for a block
               [form |-> getContainer(block, <<>>, w).form, tagged |-> tags]

\* The callback of listItems' form.
listItemsCallback(f, result, w) ==
  IF result.canceled THEN NoForm
  ELSE IF result.selection = 0
    THEN IF hasLength(f.entities) THEN ListEntitiesForm(f.entities) ELSE MainMenuForm
  ELSE LET selected == f.itemIndices[result.selection]
           selectedItem == IF selected.type = "container"
                             THEN getItem(w[f.target], selected.index)
                             ELSE getEquipment(w[f.target], selected.index)
       IN IF selected.type = "container" /\ f.container # "container" THEN NoForm
          ELSE IF selectedItem = NoItem THEN NoForm
          ELSE ItemDetailsForm(f.target,
                               IF selected.type = "container" THEN "container"
                               ELSE "equippable",
                               selectedItem, selected, passOn(f.entities))

\* The entity list the viewer's flow last went through since its main menu.
throughSelector(shown, was) ==
  IF shown.kind = "mainMenu" THEN <<>>
  ELSE IF shown.kind = "listEntities" THEN shown.entities
  ELSE was

\* A callback of the viewer ends: the form it shows, the tags and the world
\* it leaves.
Ends(v, result, shown, tags, w) ==
  /\ form' = [form EXCEPT ![v] = shown]
  /\ selectorShown' = [selectorShown EXCEPT ![v] = throughSelector(shown, @)]
  /\ tagged' = tags
  /\ world' = w
  /\ lastResponse' = Handled(v, form[v], result, world, selectorShown[v])
  /\ submits' = [submits EXCEPT ![v] = IF result.form = "editItemDetails" /\ ~ result.canceled
                                          THEN @ + 1 ELSE @]
  /\ UNCHANGED notMenuVars

\* The script event "item:editor" of a viewer who has no form open (a form
\* shown to a busy viewer comes back canceled, and the callback returns).
ScriptEvent(v) ==
  /\ form[v].kind = "none"
  /\ Ends(v, NoResponse, MainMenuForm, tagged, world)

\* The viewer answers the main menu.
MainMenuResponse(v) ==
  /\ form[v].kind = "mainMenu"
  /\ \E result \in MainMenuResponses :
     \E block \in IF result.sourceType = 1 THEN BlockOutcomes ELSE {"undefined"} :
       LET shown == mainMenuCallback(result, block, tagged, world)
       IN Ends(v, result, shown.form, shown.tagged, world)

\* The viewer answers the entity selector.
ListEntitiesResponse(v) ==
  /\ form[v].kind = "listEntities"
  /\ \E canceled \in BOOLEAN, selection \in 0..Len(form[v].entities) :
       Ends(v, Response("listEntities", canceled, 0, NoSelector, <<>>, selection),
            IF canceled THEN NoForm
            ELSE IF selection = 0 THEN MainMenuForm
            ELSE getContainer(form[v].entities[selection], form[v].entities, world).form,
            tagged, world)

\* The viewer answers the item list.
ListItemsResponse(v) ==
  /\ form[v].kind = "listItems"
  /\ \E canceled \in BOOLEAN, selection \in 0..Len(form[v].itemIndices) :
       LET result == Response("listItems", canceled, 0, NoSelector, <<>>, selection)
       IN Ends(v, result, listItemsCallback(form[v], result, world), tagged, world)

\* The viewer answers an error form: Close, Go back, or the form is canceled.
ErrorResponse(v) ==
  /\ form[v].kind = "error"
  /\ \E canceled \in BOOLEAN, selection \in {0, 1} :
       Ends(v, Response("error", canceled, 0, NoSelector, <<>>, selection),
            IF canceled \/ selection = 0 THEN NoForm
            ELSE IF form[v].previousMenu = "listEntities"
              THEN ListEntitiesForm(form[v].entities)
            ELSE IF form[v].previousMenu = "itemDetails"
              THEN [form[v] EXCEPT !.kind = "itemDetails", !.message = "",
                                   !.previousMenu = "none"]
            ELSE MainMenuForm,
            tagged, world)

\* item.getDynamicProperty("item_editor:unbreakable") of an item of a slot
isMarked(item) ==
  item # NoItem /\ Includes(getDynamicPropertyIds(item), UnbreakableId)

\* item.setDynamicProperty("item_editor:unbreakable", true)
Marked(item) ==
  [item EXCEPT !.dynamicProperties = <<[id |-> UnbreakableId, value |-> TRUE]>>]

\* A container loop that reverts nothing.
sweepContainerNever(player) == player

\* A container loop that does not look at the unbreakable mark.
sweepContainerUnmarked(player) ==
  [player EXCEPT !.container =
     [n \in 1..ContainerSize |->
        LET item == getItem(player, n - 1)
        IN IF item # NoItem /\ hasComponent(item, "durability") /\ item.damage > 0
                /\ n - 1 # player.selectedSlotIndex
             THEN [item EXCEPT !.damage = 0]
             ELSE item]]

\* onTick: the loop over the slots of the player's container.
sweepContainer(player) ==
  [player EXCEPT !.container =
     [n \in 1..ContainerSize |->
        LET i == n - 1
            item == getItem(player, i)
        IN IF /\ isMarked(item)
              /\ hasComponent(item, "durability") /\ item.damage > 0
              /\ i # player.selectedSlotIndex
             THEN [item EXCEPT !.damage = 0]   \* container.setItem(i, item)
             ELSE item]]

\* onTick: the loop over the equipment slots, from the n-th slot on.
RECURSIVE sweepEquipment(_, _)
sweepEquipment(player, n) ==
  IF n > Len(EquipmentSlots) \/ ~ player.hasEquippable THEN player
  ELSE LET slot == EquipmentSlots[n]
           equipment == getEquipment(player, slot)
           reverts ==
             /\ isMarked(equipment)
             /\ hasComponent(equipment, "durability")
             /\ IF slot \in ArmorSlots
                  THEN equipment.damage
                         >= ItemTypeInfo[equipment.typeId].maxDurability - 10
                  ELSE equipment.damage > 0
       IN sweepEquipment(IF reverts
                           THEN setEquipment(player, slot, [equipment EXCEPT !.damage = 0])
                           ELSE player,
                         n + 1)

\* onTick: every player that is not in creative mode is swept.
onTick(w) ==
  [name \in DOMAIN w |->
     IF w[name].isPlayer /\ w[name].gameMode # "creative"
       THEN sweepEquipment(sweepContainer(w[name]), 1)
       ELSE w[name]]

\* system.runInterval(onTick, tickDelay): one run of the sweep.
Tick ==
  /\ world' = onTick(world)
  /\ lastResponse' = Handled("none", NoForm, Response("tick", FALSE, 0, NoSelector, <<>>, 0),
                             world, <<>>)
  /\ UNCHANGED <<form, selectorShown, tagged, submits, notMenuVars>>

(***************************************************************************)
(* main: itemDetails and editItemDetails.                                  *)
(***************************************************************************)
\* A widget of the edit form, with the value the form pre-fills.
Widget(label, defaultValue) == [label |-> label, defaultValue |-> defaultValue]

\* Object.keys(lockModeIndices)
lockModeKeys == <<"slot", "inventory", "none">>

\* item.getLore().join('<b>'): a lore line is one symbol of the text.
loreText(item) == join([i \in 1..Len(item.lore) |-> <<item.lore[i]>>], <<"<b>">>)

\* blocks.join(', '): a block id is one symbol of the text.
blocksText(blocks) == join([i \in 1..Len(blocks) |-> <<blocks[i]>>], <<",", " ">>)

\* A registration that gives every item the "unbreakable" field.
editFieldsAllUnbreakable(item) ==
  LET f1 == Append(<<>>, "nameTag")
      f2 == IF isStackable(item) THEN Append(f1, "amount") ELSE f1
      f3 == IF hasComponent(item, "durability") THEN Append(f2, "durability") ELSE f2
      f6 == Append(Append(Append(Append(f3, "keepOnDeath"), "unbreakable"), "lockMode"), "lore")
      f7 == IF hasComponent(item, "enchantable") THEN Append(f6, "enchantments") ELSE f6
  IN Append(Append(f7, "canDestroy"), "canPlaceOn")

\* editItemDetails: the names given to formManager.addField, in order.
editFields(item) ==
  LET f1 == Append(<<>>, "nameTag")
      f2 == IF isStackable(item) THEN Append(f1, "amount") ELSE f1
      f3 == IF hasComponent(item, "durability") THEN Append(f2, "durability") ELSE f2
      f4 == Append(f3, "keepOnDeath")
      f5 == IF ~ isStackable(item) THEN Append(f4, "unbreakable") ELSE f4
      f6 == Append(Append(f5, "lockMode"), "lore")
      f7 == IF hasComponent(item, "enchantable") THEN Append(f6, "enchantments") ELSE f6
  IN Append(Append(f7, "canDestroy"), "canPlaceOn")

\* editItemDetails: the widgets given to editForm, in order.
editWidgets(item) ==
  LET w1 == <<Widget("Nametag", IF item.nameTag = "undefined" THEN "" ELSE item.nameTag)>>
      w2 == IF isStackable(item) THEN Append(w1, Widget("Amount", item.amount)) ELSE w1
      w3 == IF hasComponent(item, "durability")
              THEN Append(w2, Widget("Durability", item.damage)) ELSE w2
      w4 == Append(w3, Widget("Keep on death", item.keepOnDeath))
      w5 == IF ~ isStackable(item) THEN Append(w4, Widget("Unbreakable", isMarked(item)))
            ELSE w4
      w6 == Append(Append(w5, Widget("Lock mode", indexOf(lockModeKeys, item.lockMode))),
                   Widget("Lore", loreText(item)))
      w7 == IF hasComponent(item, "enchantable")
              THEN Append(w6, Widget("Enchantments", formatEnchantments(item.enchantments)))
              ELSE w6
  IN Append(Append(w7, Widget("Can destroy these blocks", blocksText(item.canDestroy))),
            Widget("Can be placed on", blocksText(item.canPlaceOn)))

\* editItemDetails(viewer, item, container, slotIndex, target, isEquippable,
\* targetEntities): the form it shows for the arguments of the details form.
EditForm(f) ==
  [f EXCEPT !.kind = "editItemDetails", !.entities = passOn(f.entities),
            !.fields = editFields(f.item), !.widgets = editWidgets(f.item)]

\* The callback of itemDetails' form: "Edit Item" or "Go back".
itemDetailsCallback(f, result, w) ==
  IF result.canceled THEN NoForm
  ELSE IF result.selection = 0 THEN EditForm(f)
  ELSE ListItemsForm(f.target, f.container, passOn(f.entities), w)

RECURSIVE parseEntries(_, _, _, _)
\* The for loop of parseEnchantments from the i-th entry on.
parseEntries(item, entries, i, list) ==
  IF i > Len(entries) THEN [kind |-> "ok", enchantments |-> list, error |-> NoError]
  ELSE LET outcome == checkEntry(item, entries[i])
       IN IF outcome.kind = "ok"
            THEN parseEntries(item, entries, i + 1, push(list, outcome.enchantment))
            ELSE [kind |-> outcome.kind, enchantments |-> <<>>, error |-> outcome.error]

\* parseEnchantments(item, enchantmentsStr) as its caller sees it: a list,
\* an error, or the exception of the host's compatibility check.
parseEnchantments(item, str) ==
  IF ~ hasComponent(item, "enchantable")
    THEN [kind |-> "error", enchantments |-> <<>>,
          error |-> [kind |-> "notEnchantable", text |-> <<>>, cited |-> <<>>,
                     typeId |-> item.typeId]]
    ELSE parseEntries(item, splitEntries(str), 1, <<>>)

\* text.split(sep).map(part => part.trim()).filter(part => part !== ''),
\* each part read as the one symbol it is made of.
listOf(text, sep) ==
  LET parts == split(text, sep)
      trimmed == [i \in 1..Len(parts) |-> trim(parts[i])]
      NotEmpty(part) == part # <<>>
      kept == SelectSeq(trimmed, NotEmpty)
  IN [i \in 1..Len(kept) |-> kept[i][1]]

\* The loop over a block list: the valid blocks, or the first invalid one.
validBlocks(blocks) ==
  LET invalid == {i \in 1..Len(blocks) : blocks[i] \notin BlockIds}   \* !BlockTypes.get(block)
  IN IF invalid = {} THEN [ok |-> TRUE, blocks |-> blocks]
     ELSE [ok |-> FALSE, blocks |-> <<>>]

\* The error form of a rejected submission: its "Go back" shows the details
\* of the item as the callback left it.
EditError(f, message, item) ==
  [f EXCEPT !.kind = "error", !.message = message, !.previousMenu = "itemDetails",
            !.item = item, !.entities = passOn(f.entities), !.fields = <<>>,
            !.widgets = <<>>]

\* What the callback of the edit form ends with: the form shown (none after
\* an exception) and the target's inventory.
Edited(threw, shown, holder) == [threw |-> threw, form |-> shown, holder |-> holder]

\* The values the callback reads from the response, by field name.
editValues(f, response) ==
  [nameTag |-> getValue(f.fields, response, "nameTag", f.item.nameTag).value,
   amount |-> getValue(f.fields, response, "amount", f.item.amount).value,
   durabilityValue |->
     getValue(f.fields, response, "durability",
              IF hasComponent(f.item, "durability") THEN f.item.damage ELSE 0).value,
   keepOnDeath |-> getValue(f.fields, response, "keepOnDeath", f.item.keepOnDeath).value,
   isUnbreakable |-> getValue(f.fields, response, "unbreakable", isMarked(f.item)).value,
   lockModeIndex |-> getValue(f.fields, response, "lockMode",
                              indexOf(lockModeKeys, f.item.lockMode)).value,
   loreInput |-> getValue(f.fields, response, "lore", loreText(f.item)).value,
   enchantmentsInput |->
     getValue(f.fields, response, "enchantments",
              IF hasComponent(f.item, "enchantable")
                THEN formatEnchantments(f.item.enchantments) ELSE <<>>).value,
   canDestroyInput |-> getValue(f.fields, response, "canDestroy",
                                blocksText(f.item.canDestroy)).value,
   canPlaceOnInput |-> getValue(f.fields, response, "canPlaceOn",
                                blocksText(f.item.canPlaceOn)).value]

\* The setters up to lockMode.
setValues(item, v) ==
  [item EXCEPT !.nameTag = IF v.nameTag = "" THEN "undefined" ELSE v.nameTag,
               !.amount = v.amount,
               !.damage = IF hasComponent(item, "durability") THEN v.durabilityValue ELSE @,
               !.keepOnDeath = v.keepOnDeath,
               !.lockMode = lockModeKeys[v.lockModeIndex + 1]]

\* if (isUnbreakable) ... else ..., for an item that has a durability
\* component or is not to be unbreakable.
markUnbreakable(item, isUnbreakable) ==
  IF isUnbreakable THEN Marked([item EXCEPT !.damage = 0])
  ELSE [item EXCEPT !.dynamicProperties = <<>>]

\* The item after the setters up to setLore.
withLore(item, v) ==
  [markUnbreakable(setValues(item, v), v.isUnbreakable)
     EXCEPT !.lore = listOf(v.loreInput, "<b>")]

\* enchantable.removeAllEnchantments()
removeAllEnchantments(item) == [item EXCEPT !.enchantments = <<>>]

\* A step of the callback that went through, or the message of the error
\* form it ended with; either way the item as the step left it.
Step(ok, message, item) == [ok |-> ok, message |-> message, item |-> item]

\* if (enchantable) { try ... catch ... }: newEnchantments is what
\* parseEnchantments gives for the item without its enchantments;
\* enchantable.addEnchantments throws for a level that is not a number.
editEnchantments(item, enchantmentsInput, newEnchantments) ==
  IF ~ hasComponent(item, "enchantable") THEN Step(TRUE, "", item)
  ELSE IF enchantmentsInput = <<>> THEN Step(TRUE, "", removeAllEnchantments(item))
  ELSE IF newEnchantments.kind = "error"
    THEN Step(FALSE, newEnchantments.error.kind, removeAllEnchantments(item))
  ELSE IF \/ newEnchantments.kind = "throw"
          \/ \E i \in 1..Len(newEnchantments.enchantments) :
               newEnchantments.enchantments[i].level.nan
    THEN Step(FALSE, "Failed to edit enchantments: ", removeAllEnchantments(item))
  ELSE Step(TRUE, "",
            [item EXCEPT !.enchantments =
               [i \in 1..Len(newEnchantments.enchantments) |->
                  [type |-> newEnchantments.enchantments[i].type,
                   level |-> newEnchantments.enchantments[i].level.val]]])

\* The two loops over the block lists, with setCanDestroy and setCanPlaceOn.
editBlocks(item, canDestroy, canPlaceOn) ==
  IF ~ canDestroy.ok THEN Step(FALSE, "cannot be added to \"Can Destroy\" list.", item)
  ELSE IF ~ canPlaceOn.ok
    THEN Step(FALSE, "cannot be added to \"Can Place On\" list.",
              [item EXCEPT !.canDestroy = canDestroy.blocks])
  ELSE Step(TRUE, "", [item EXCEPT !.canDestroy = canDestroy.blocks,
                                   !.canPlaceOn = canPlaceOn.blocks])

\* The end of the callback: the error form of a rejected block list, or the
\* write-back and the details of the edited item.
editWriteBack(f, holder, edited) ==
  IF ~ edited.ok THEN Edited(FALSE, EditError(f, edited.message, edited.item), holder)
  ELSE Edited(FALSE,
              [f EXCEPT !.kind = "itemDetails", !.item = edited.item,
                        !.entities = passOn(f.entities), !.fields = <<>>,
                        !.widgets = <<>>],
              IF f.isEquippable /\ f.container = "equippable"
                THEN setEquipment(holder, f.slot, edited.item)
              ELSE IF ~ f.isEquippable /\ f.container = "container"
                THEN setItem(holder, f.slotIndex, edited.item)
              ELSE holder)

\* The callback from the block lists on, after the enchantments.
editAfterEnchantments(f, holder, v, enchanted) ==
  IF ~ enchanted.ok
    THEN Edited(FALSE, EditError(f, enchanted.message, enchanted.item), holder)
  ELSE editWriteBack(f, holder,
                     editBlocks(enchanted.item, validBlocks(listOf(v.canDestroyInput, ",")),
                                validBlocks(listOf(v.canPlaceOnInput, ","))))

\* The callback for the values v of a submitted form.
editSubmitted(f, holder, v) ==
  IF v.isUnbreakable /\ ~ hasComponent(f.item, "durability")
    THEN Edited(TRUE, NoForm, holder)   \* durabilityComponent.damage on undefined
  ELSE editAfterEnchantments(
         f, holder, v,
         editEnchantments(withLore(f.item, v), v.enchantmentsInput,
                          parseEnchantments(removeAllEnchantments(withLore(f.item, v)),
                                            v.enchantmentsInput)))

\* The callback of editItemDetails' form.
editCallback(f, response, holder) ==
  IF response.canceled \/ ~ response.hasValues THEN Edited(FALSE, NoForm, holder)
  ELSE editSubmitted(f, holder, editValues(f, response))

\* What a viewer does to the pre-filled values of the edit form: values
\* typed into widgets, by label.
EditChanges ==
  << <<>>,
     "Nametag" :> "Renamed",
     "Amount" :> 2,
     "Durability" :> 5,
     "Keep on death" :> TRUE,
     "Unbreakable" :> TRUE,
     "Unbreakable" :> FALSE,
     "Lock mode" :> 0,
     "Lore" :> <<"la", "<b>", " ", "<b>", "lb">>,
     "Enchantments" :> <<>>,
     "Enchantments" :> txt.fireAspectII,
     "Enchantments" :> txt.bogus,
     "Enchantments" :> txt.mending1,
     "Can destroy these blocks" :> <<"stone", ",", " ", "dirt">>,
     "Can destroy these blocks" :> <<"bogus">>,
     "Can be placed on" :> <<"bogus">>,
     ("Nametag" :> "Renamed") @@ ("Can be placed on" :> <<"bogus">>),
     ("Nametag" :> "Renamed") @@ ("Lore" :> <<"lb">>) @@ ("Can be placed on" :> <<"dirt">>) >>

\* The response to the edit form f in which the viewer made the changes.
EditResponseOf(f, canceled, changes) ==
  [Response("editItemDetails", canceled, 0, NoSelector, <<>>, 0)
     EXCEPT !.hasValues = ~ canceled,
            !.formValues =
              IF canceled THEN <<>>
              ELSE [i \in 1..Len(f.widgets) |->
                      IF f.widgets[i].label \in DOMAIN changes
                        THEN changes[f.widgets[i].label]
                        ELSE f.widgets[i].defaultValue]]

\* The viewer answers the details form.
ItemDetailsResponse(v) ==
  /\ form[v].kind = "itemDetails"
  /\ \E canceled \in BOOLEAN, selection \in {0, 1} :
       LET result == Response("itemDetails", canceled, 0, NoSelector, <<>>, selection)
       IN Ends(v, result, itemDetailsCallback(form[v], result, world), tagged, world)

\* The viewer submits or cancels the edit form.
EditResponse(v) ==
  /\ form[v].kind = "editItemDetails"
  /\ submits[v] < MaxSubmits
  /\ \E canceled \in BOOLEAN :
     \E k \in IF canceled THEN {1} ELSE DOMAIN EditChanges :
       LET response == EditResponseOf(form[v], canceled, EditChanges[k])
           edited == editCallback(form[v], response, world[form[v].target])
       IN Ends(v, response, edited.form, tagged,
               [world EXCEPT ![form[v].target] = edited.holder])

(***************************************************************************)
(* Specification SpecMenu: one viewer runs the script event and answers    *)
(* the forms it is shown, while the sweep runs every tick.                 *)
(***************************************************************************)
MenuInit ==
  /\ form = [v \in {"alex"} |-> NoForm]
  /\ selectorShown = [v \in {"alex"} |-> <<>>]
  /\ lastResponse = Handled("none", NoForm, NoResponse, MenuWorld, <<>>)
  /\ tagged = {}
  /\ world = MenuWorld
  /\ submits = [v \in {"alex"} |-> 0]
  /\ stackOrderMatters = TRUE
  /\ Idle({"menu"})

MenuNext ==
  \/ \E v \in DOMAIN form : ScriptEvent(v)
  \/ \E v \in DOMAIN form : MainMenuResponse(v)
  \/ \E v \in DOMAIN form : ListEntitiesResponse(v)
  \/ \E v \in DOMAIN form : ListItemsResponse(v)
  \/ \E v \in DOMAIN form : ItemDetailsResponse(v)
  \/ \E v \in DOMAIN form : EditResponse(v)
  \/ \E v \in DOMAIN form : ErrorResponse(v)
  \/ Tick

SpecMenu == MenuInit /\ [][MenuNext]_vars

\* C20: when the viewer submits the main menu with source type Block and a
\* location text that parseCoords rejects, an error form is shown whose
\* "Go back" button reopens the main menu.
C20_RejectedLocationShowsError ==
  \A v \in DOMAIN form :
    ( /\ lastResponse.viewer = v
      /\ lastResponse.result.form = "mainMenu" /\ ~ lastResponse.result.canceled
      /\ lastResponse.result.sourceType = 1
      /\ parseCoords(Viewer, lastResponse.result.location).isString )
    => form[v].kind = "error" /\ form[v].previousMenu = "mainMenu"

(***************************************************************************)
(* Claims about getContainer and parseSelector.                            *)
(***************************************************************************)
\* The entities that the last response made its callback call getContainer on.
GetContainerCalledOn ==
  LET result == lastResponse.result
      inDimension == {e \in result.selector.matched :
                        EntityInfo[e].dimension = Viewer.dimension}
  IN IF result.canceled THEN {}
     ELSE IF result.form = "listEntities" /\ result.selection >= 1
       THEN {lastResponse.shown.entities[result.selection]}
     ELSE IF /\ result.form = "mainMenu" /\ result.sourceType = 0
             /\ result.selector.command = "ok" /\ Cardinality(inDimension) = 1
       THEN inDimension
     ELSE {}

\* C22: when getContainer is called on an entity that has no inventory
\* container, the "does not have an inventory" error form is shown, and its
\* "Go back" leads to the entity selector when more than one entity was
\* matched and to the main menu otherwise.
C22_NoInventoryShowsError ==
  \A v \in DOMAIN form : \A e \in GetContainerCalledOn :
    (lastResponse.viewer = v /\ ~ EntityInfo[e].hasInventory)
    => /\ form[v].kind = "error"
       /\ form[v].message = " does not have an inventory."
       /\ IF lastResponse.result.form = "listEntities"
            THEN /\ form[v].previousMenu = "listEntities"
                 /\ form[v].entities = lastResponse.shown.entities
            ELSE form[v].previousMenu = "mainMenu"

\* C28: parseSelector leaves no trace: after it has returned, no entity of
\* any dimension carries the temporary tag, and the list it returned holds
\* exactly the entities that the selector matched.
C28_SelectorLeavesNoTrace ==
  /\ tagged = {}
  /\ LET result == lastResponse.result
     IN ( /\ result.form = "mainMenu" /\ ~ result.canceled /\ result.sourceType = 0
          /\ result.selector.command = "ok" )
        => LET selector == parseSelector(Viewer, result.selector, {})
           IN /\ ~ selector.hasError
              /\ Range(selector.entities) = result.selector.matched

(***************************************************************************)
(* Specification SpecSweep: one player, in survival or creative mode,      *)
(* with marked and unmarked, worn and unworn items in the container, on    *)
(* the head and in the off hand; the sweep runs.                           *)
(***************************************************************************)
\* A renamed, enchanted sword with lore that is kept on death.
NamedSword ==
  [NewItem("sword") EXCEPT !.nameTag = "Named", !.lore = <<"la">>, !.keepOnDeath = TRUE,
                           !.enchantments = <<[type |-> typeIds.sharpness, level |-> 2]>>]

\* What the player holds: the durability of a marked item has been used
\* since the editor marked it.
SweptItems ==
  { NoItem, NewItem("apple"), [NewItem("sword") EXCEPT !.damage = 7],
    Marked(NamedSword), Marked([NamedSword EXCEPT !.damage = 7]) }

\* What the player wears on the head; a helmet's maxDurability - 10 is 10.
SweptHelmets ==
  { NoItem, [NewItem("helmet") EXCEPT !.damage = 15] }
    \cup { Marked([NewItem("helmet") EXCEPT !.damage = d]) : d \in {0, 9, 10, 20} }

SweptPlayers ==
  { [Holder(TRUE, TRUE, gameMode, <<>>, [Head |-> head, Offhand |-> offhand])
       EXCEPT !.selectedSlotIndex = selected, !.container = held] :
      gameMode \in {"survival", "creative"},
      selected \in 0..(ContainerSize - 1),
      held \in [1..ContainerSize -> SweptItems],
      head \in SweptHelmets,
      offhand \in {NoItem, Marked([NewItem("sword") EXCEPT !.damage = 7])} }

SweepInit ==
  /\ form = [v \in {"alex"} |-> NoForm]
  /\ selectorShown = [v \in {"alex"} |-> <<>>]
  /\ \E player \in SweptPlayers : world = [MenuWorld EXCEPT !.steve = player]
  /\ lastResponse = Handled("none", NoForm, NoResponse, world, <<>>)
  /\ tagged = {}
  /\ submits = [v \in {"alex"} |-> 0]
  /\ stackOrderMatters = TRUE
  /\ Idle({"menu"})

SpecSweep == SweepInit /\ [][Tick]_vars

\* The sweep was the callback that ran last.
Swept == lastResponse.result.form = "tick"

SweptNames == {name \in DOMAIN world : world[name].isPlayer /\ world[name].gameMode # "creative"}

\* A marked item that has a durability component.
MarkedDurable(item) == isMarked(item) /\ hasComponent(item, "durability")

SameButDamage(was, now, mayRevert) ==
  \/ now = was
  \/ /\ mayRevert /\ isMarked(was) /\ now # NoItem
     /\ [now EXCEPT !.damage = was.damage] = was

\* C29: a run of the sweep changes nothing but the damage of marked items:
\* unmarked items, the items of players in creative mode, and every field
\* other than damage of a marked item are afterwards as they were before.
C29_SweepChangesOnlyDamage ==
  Swept =>
    /\ DOMAIN world = DOMAIN lastResponse.before
    /\ \A name \in DOMAIN world :
         LET was == lastResponse.before[name]
             now == world[name]
             mayRevert == name \in SweptNames
         IN /\ [now EXCEPT !.container = was.container, !.equipment = was.equipment] = was
            /\ \A n \in 1..ContainerSize :
                 SameButDamage(was.container[n], now.container[n], mayRevert)
            /\ \A slot \in Range(EquipmentSlots) :
                 SameButDamage(was.equipment[slot], now.equipment[slot], mayRevert)

\* The sweep reverted the damage of a renamed, enchanted marked sword and
\* left the unmarked sword beside it and a marked helmet in good state alone.
C29_Witness ==
  /\ Swept
  /\ LET was == lastResponse.before.steve
         now == world.steve
     IN /\ was.gameMode = "survival" /\ was.selectedSlotIndex = 0
        /\ was.container[1] = [NewItem("sword") EXCEPT !.damage = 7]
        /\ was.container[2] = Marked([NamedSword EXCEPT !.damage = 7])
        /\ was.equipment["Head"] = Marked([NewItem("helmet") EXCEPT !.damage = 9])
        /\ now.container[1] = was.container[1]
        /\ now.container[2] = Marked(NamedSword)
        /\ now.equipment["Head"] = was.equipment["Head"]

(***************************************************************************)
(* Claims about the menu flow.                                             *)
(***************************************************************************)
\* C30: "Go back" from the item list returns to the entity selector exactly
\* when the flow went through the entity selector (the selector matched
\* more than one entity), and to the main menu otherwise; the item list,
\* details, edit and error menus all carry the list of matched entities
\* that the entity selector showed.
C30_GoBackFollowsSelector ==
  \A v \in DOMAIN form :
    /\ ( /\ lastResponse.viewer = v
         /\ lastResponse.result.form = "listItems"
         /\ ~ lastResponse.result.canceled /\ lastResponse.result.selection = 0 )
       => IF Len(lastResponse.through) > 1
            THEN /\ form[v].kind = "listEntities"
                 /\ form[v].entities = lastResponse.through
            ELSE form[v].kind = "mainMenu"
    /\ Len(selectorShown[v]) # 1
    /\ form[v].kind \in {"listItems", "itemDetails", "editItemDetails", "error"}
       => form[v].entities = selectorShown[v]

\* After an edit was submitted, the viewer went back from the item list of a
\* target picked in the entity selector, and the selector is shown again
\* with the same two entities.
C30_Witness ==
  /\ lastResponse.viewer = "alex"
  /\ lastResponse.result.form = "listItems"
  /\ ~ lastResponse.result.canceled /\ lastResponse.result.selection = 0
  /\ lastResponse.shown.target = "steve"
  /\ lastResponse.through = <<"steve", "villager">>
  /\ submits["alex"] = 1
  /\ form["alex"] = ListEntitiesForm(<<"steve", "villager">>)

(***************************************************************************)
(* Specification SpecEdit: the viewer has the item list of a target open   *)
(* that holds one item, of any combination of components, and goes on to   *)
(* the details and the edit form.                                          *)
(***************************************************************************)
\* The items to edit: one of every combination of stackable, durability and
\* enchantable, and items that an earlier edit has changed.
EditedItems ==
  { NewItem(typeId) : typeId \in DOMAIN ItemTypeInfo }
    \cup { NamedSword, Marked([NamedSword EXCEPT !.damage = 7]),
           [NewItem("apple") EXCEPT !.amount = 2, !.lockMode = "slot"],
           [NewItem("book") EXCEPT !.enchantments = <<[type |-> typeIds.mending, level |-> 1]>>,
                                   !.canDestroy = <<"stone">>],
           [NewItem("totem") EXCEPT !.canPlaceOn = <<"dirt", "stone">>, !.lore = <<"la", "lb">>] }

EditInit ==
  /\ stackOrderMatters = TRUE
  /\ \E item \in EditedItems, tgt \in {"steve", "chest"} :
       /\ world = [MenuWorld EXCEPT ![tgt].container[1] = item]
       /\ \E targetEntities \in IF tgt = "steve" THEN {<<>>, <<"steve", "villager">>}
                                ELSE {<<>>} :
            /\ form = [v \in {"alex"} |-> ListItemsForm(tgt, "container", targetEntities, world)]
            /\ selectorShown = [v \in {"alex"} |-> targetEntities]
  /\ lastResponse = Handled("none", NoForm, NoResponse, world, <<>>)
  /\ tagged = {}
  /\ submits = [v \in {"alex"} |-> 0]
  /\ Idle({"menu"})

SpecEdit ==
  EditInit
    /\ [][\E v \in DOMAIN form :
            \/ ListItemsResponse(v) \/ ItemDetailsResponse(v)
            \/ EditResponse(v) \/ ErrorResponse(v)]_vars

\* The label of the widget that editItemDetails shows for a field name.
WidgetLabel(name) ==
  CASE name = "nameTag" -> "Nametag" [] name = "amount" -> "Amount"
    [] name = "durability" -> "Durability" [] name = "keepOnDeath" -> "Keep on death"
    [] name = "unbreakable" -> "Unbreakable" [] name = "lockMode" -> "Lock mode"
    [] name = "lore" -> "Lore" [] name = "enchantments" -> "Enchantments"
    [] name = "canDestroy" -> "Can destroy these blocks"
    [] name = "canPlaceOn" -> "Can be placed on"

\* The positions of the widgets of form f that carry the label.
WidgetsLabelled(f, label) == {i \in 1..Len(f.widgets) : f.widgets[i].label = label}

\* The viewer submitted an edit form with the last response.
Submitted(v) ==
  /\ lastResponse.viewer = v
  /\ lastResponse.result.form = "editItemDetails" /\ ~ lastResponse.result.canceled

\* C24: in editItemDetails, for every combination of item kinds, the index
\* registered for each field name is the position of that field's widget
\* in the form, so each value read back by name is the value of its own
\* widget.
C24_FieldIndexIsWidgetPosition ==
  \A v \in DOMAIN form :
    /\ form[v].kind = "editItemDetails"
       => /\ Len(form[v].fields) = Len(form[v].widgets)
          /\ \A name \in Range(form[v].fields) :
               WidgetsLabelled(form[v], WidgetLabel(name))
                 = {getFieldIndex(form[v].fields, name) + 1}
    /\ Submitted(v)
       => \A name \in Range(lastResponse.shown.fields) :
            \A i \in WidgetsLabelled(lastResponse.shown, WidgetLabel(name)) :
              getValue(lastResponse.shown.fields, lastResponse.result, name, "default").value
                = lastResponse.result.formValues[i]

\* The edit form of a stackable, enchantable item with durability: nine
\* fields, "amount" and "durability" among them and no "unbreakable"; a
\* submission of that form was read back.
C24_Witness ==
  /\ Submitted("alex")
  /\ lastResponse.shown.item.typeId = "charm"
  /\ lastResponse.shown.fields
       = <<"nameTag", "amount", "durability", "keepOnDeath", "lockMode", "lore",
           "enchantments", "canDestroy", "canPlaceOn">>
  /\ lastResponse.result.formValues[1] = "Renamed"
  /\ lastResponse.result.formValues[2] = 1
  /\ form["alex"].kind = "error"

\* The item stored in the slot that form f is about.
SlotItem(f, w) ==
  IF f.isEquippable THEN getEquipment(w[f.target], f.slot)
  ELSE getItem(w[f.target], f.slotIndex)

\* The value the submitted response holds for the widget with the label.
Typed(label) ==
  LET at == WidgetsLabelled(lastResponse.shown, label)
  IN IF at = {} THEN "undefined"
     ELSE lastResponse.result.formValues[CHOOSE i \in at : TRUE]

\* C26: for every non-stackable item, with or without a durability
\* component, submitting the edit form with the Unbreakable toggle on never
\* aborts part-way: a menu is shown again, and when it is the details menu
\* the item has been written back to its slot carrying the unbreakable mark
\* (and damage 0 when it has durability).
C26_UnbreakableNeverAborts ==
  \A v \in DOMAIN form :
    ( /\ Submitted(v)
      /\ ~ isStackable(lastResponse.shown.item)
      /\ Typed("Unbreakable") = TRUE )
    => /\ form[v].kind \in {"itemDetails", "error"}
       /\ form[v].kind = "itemDetails"
          => /\ SlotItem(form[v], world) = form[v].item
             /\ isMarked(form[v].item)
             /\ hasComponent(form[v].item, "durability") => form[v].item.damage = 0

\* C25: an edit submission that is rejected leaves the stored slot
\* unchanged, and the item that "Go back" carries on to the details menu
\* equals the item stored in the slot.
C25_RejectedEditCarriesStoredItem ==
  \A v \in DOMAIN form :
    (Submitted(v) /\ form[v].kind = "error")
    => /\ world = lastResponse.before
       /\ form[v].item = SlotItem(form[v], world)

(***************************************************************************)
(* Specification SpecRace: two viewers have the item list of the same      *)
(* player open and edit the item in its hand while the sweep runs.  Every  *)
(* callback runs to its end before the next one starts; the callbacks of   *)
(* the two viewers and the sweep interleave in any order.                  *)
(***************************************************************************)
Viewers == {"alex", "sam"}

RaceInit ==
  /\ stackOrderMatters = TRUE
  /\ world = [MenuWorld EXCEPT !.steve.container[1] = Marked([NamedSword EXCEPT !.damage = 7])]
  /\ form = [v \in Viewers |-> ListItemsForm("steve", "container", <<>>, world)]
  /\ selectorShown = [v \in Viewers |-> <<>>]
  /\ lastResponse = Handled("none", NoForm, NoResponse, world, <<>>)
  /\ tagged = {}
  /\ submits = [v \in Viewers |-> 0]
  /\ Idle({"menu"})

SpecRace ==
  RaceInit
    /\ [][\/ \E v \in DOMAIN form :
               \/ ListItemsResponse(v) \/ ItemDetailsResponse(v)
               \/ EditResponse(v) \/ ErrorResponse(v)
          \/ Tick]_vars

\* C21: under every interleaving of form-response callbacks and sweep ticks,
\* each write of the editor to a slot is computed from the contents the
\* slot holds at the moment of the write: the item the edit form was built
\* from is the item in the slot when the submission is handled.
C21_WriteFromCurrentContents ==
  \A v \in DOMAIN form :
    (Submitted(v) /\ form[v].kind = "itemDetails")
    => lastResponse.shown.item = SlotItem(lastResponse.shown, lastResponse.before)

====
